---------------------------- MODULE Spec2Model ----------------------------
(***************************************************************************)
(* Model of the subtitle validation engine of Subtitle-Translator.         *)
(*                                                                         *)
(* parse_srt_file (src/python/validation_utils.py) is modelled as a state  *)
(* machine over its line cursor and its list of blocks, one action per     *)
(* outcome of an iteration of the outer scan loop; its lines are           *)
(* sequences of characters and the timestamp pattern is matched character  *)
(* by character.                                                           *)
(*                                                                         *)
(* validate_subtitle_pair (src/python/validation_utils.py) is modelled as  *)
(* a state machine over its local variables: the two block sequences it    *)
(* is called with, the issues list, the error and checked-block counters,  *)
(* the loop index and the returned ValidationResult.                       *)
(*                                                                         *)
(* translate_files and translate_single_file                               *)
(* (src/python/translator_bridge.py) are modelled as the main thread, one  *)
(* call of translate_single_file per file and one call of                  *)
(* translate_file_worker per file and language; a store into the global    *)
(* dict failed_files has a beginning and an end.                           *)
(*                                                                         *)
(* Strings that the code only compares (timestamps, issue types) are TLA+  *)
(* strings.  Text lines, which the code strips, are sequences of           *)
(* characters.  match_rate, a float in the code, is an exact rational      *)
(* [num, den]; floating-point rounding is not modelled.                    *)
(***************************************************************************)
EXTENDS Integers, Sequences, FiniteSets, TLC

VARIABLES
    en_blocks,        \* validate_subtitle_pair: argument en_blocks
    target_blocks,    \* validate_subtitle_pair: argument target_blocks
    filename,         \* validate_subtitle_pair: argument filename
    target_lang,      \* validate_subtitle_pair: argument target_lang
    pc,               \* position in validate_subtitle_pair
    i,                \* loop index of the per-block loop (0-based, as in the code)
    issues,           \* local list issues
    error_count,      \* local counter error_count
    checked_blocks,   \* local counter checked_blocks
    result,           \* the returned ValidationResult, once pc = "done"
    lines,            \* parse_srt_file: local list lines
    cursor,           \* parse_srt_file: local line cursor i (0-based)
    blocks,           \* parse_srt_file: local list blocks
    parse_pc,         \* position in parse_srt_file
    iterations,       \* parse_srt_file: iterations of the outer loop so far
    segments,         \* how the input of parse_srt_file was put together
    srt_files,        \* translate_files: local list srt_files
    languages,        \* translate_files: argument languages
    parallel_files,   \* translate_files: argument parallel_files
    parallel_languages, \* translate_files: argument parallel_languages
    main_pc,          \* position of the thread in translate_files
    collected,        \* files whose result translate_files has taken
    current_task,     \* translate_files: local counter current_task
    progress,         \* the current values passed to send_progress
    bridge_result,    \* the dict translate_files returns
    file_pc,          \* position of each call of translate_single_file
    worker,           \* state of each call of translate_file_worker
    pending,          \* the store into failed_files a call is about to make
    file_failed,      \* translate_single_file: local flag file_failed
    file_result,      \* the dict each call of translate_single_file returns
    failed_tasks,     \* the files and languages that have failed so far
    writers,          \* the calls inside a store into failed_files
    snapshot,         \* the contents each of them found when it began
    failed_files,     \* module global failed_files
    logger_errors,    \* ErrorLogger: self.errors
    logger_failed_files, \* ErrorLogger: self.failed_files, in insertion order
    failed_list,      \* what the last call of get_failed_files returned
    retry_count,      \* translate_file_worker: argument retry_count
    worker_pc,        \* position in translate_file_worker
    attempts,         \* outcomes of the worker's calls of translate_blocks, in order
    waits,            \* the delays the worker has slept, in order
    worker_result,    \* the dict translate_file_worker returns
    delay_arg,        \* get_retry_delay: argument retry_count
    delay,            \* get_retry_delay: the value returned
    api_pc,           \* position in safe_api_call
    api_attempt,      \* safe_api_call: loop variable attempt
    api_calls,        \* outcomes of the calls of func so far, in order
    api_waits,        \* the wait_time values slept by safe_api_call, in order
    tb_blocks,        \* translate_blocks: argument blocks
    tb_pc,            \* position in translate_blocks
    tb_i,             \* translate_blocks: loop variable i
    translated_blocks, \* translate_blocks: local list translated_blocks
    batch_lines,      \* translate_batch: argument lines of the last call
    raw,              \* translate_batch: raw.split("\n"), empty if the call raised
    batch_out         \* translate_blocks: batch_translated_lines of the last batch

validate_vars == <<en_blocks, target_blocks, filename, target_lang, pc, i,
                   issues, error_count, checked_blocks, result>>

parse_vars == <<lines, cursor, blocks, parse_pc, iterations, segments>>

bridge_input == <<srt_files, languages, parallel_files, parallel_languages>>

main_state == <<main_pc, collected, current_task, progress, bridge_result>>

file_state == <<file_pc, worker, pending, file_failed, file_result, failed_tasks>>

dict_state == <<writers, snapshot, failed_files>>

bridge_vars == <<bridge_input, main_state, file_state, dict_state>>

logger_vars == <<logger_errors, logger_failed_files, failed_list>>

worker_vars == <<retry_count, worker_pc, attempts, waits, worker_result,
                 delay_arg, delay>>

api_vars == <<api_pc, api_attempt, api_calls, api_waits>>

batch_vars == <<tb_blocks, tb_pc, tb_i, translated_blocks, batch_lines, raw,
                batch_out>>

ext_vars == <<logger_vars, worker_vars, api_vars, batch_vars>>

core_vars == <<validate_vars, parse_vars, bridge_vars>>

vars == <<core_vars, ext_vars>>

\* No ErrorLogger call has been made.
LoggerIdle ==
    /\ logger_errors = <<>>
    /\ logger_failed_files = <<>>
    /\ failed_list = <<"not called">>

\* Neither translate_file_worker nor get_retry_delay is running.
WorkerIdle ==
    /\ retry_count = 0
    /\ worker_pc = "idle"
    /\ attempts = <<>>
    /\ waits = <<>>
    /\ worker_result = [ returned |-> FALSE ]
    /\ delay_arg = 0
    /\ delay = 0

\* safe_api_call is not running.
ApiIdle ==
    /\ api_pc = "idle"
    /\ api_attempt = 0
    /\ api_calls = <<>>
    /\ api_waits = <<>>

\* translate_blocks is not running.
BatchIdle ==
    /\ tb_blocks = <<>>
    /\ tb_pc = "idle"
    /\ tb_i = 0
    /\ translated_blocks = <<>>
    /\ batch_lines = <<>>
    /\ raw = <<>>
    /\ batch_out = <<>>

\* Before translate_files returns there is no result.
NoBridgeResult == [ returned |-> FALSE ]

\* translate_files is not running.
BridgeIdle ==
    /\ srt_files = <<>>
    /\ languages = <<>>
    /\ parallel_files = FALSE
    /\ parallel_languages = FALSE
    /\ main_pc = "idle"
    /\ collected = {}
    /\ current_task = 0
    /\ progress = <<>>
    /\ bridge_result = NoBridgeResult
    /\ file_pc = <<>>
    /\ worker = <<>>
    /\ pending = <<>>
    /\ file_failed = <<>>
    /\ file_result = <<>>
    /\ failed_tasks = {}
    /\ writers = {}
    /\ snapshot = <<>>
    /\ failed_files = <<>>

----------------------------------------------------------------------------
(* Bounds and input domains *)

\* Largest number of blocks in either input sequence.
MaxBlocks == 2

\* Characters that str.strip() removes.
Whitespace == {" ", "\t"}

\* Text lines (sequences of characters): empty, blank, and with content
\* surrounded by whitespace.
EmptyLine == <<>>
BlankLine == <<" ", "\t">>
HiLine == <<" ", "H", "i", " ">>

\* text_lines values: no lines, only blank lines, content after a blank line.
TextLinesSet ==
    { <<>>, <<EmptyLine, BlankLine>>, <<BlankLine, HiLine>> }

\* (start_time, end_time) pairs: a base pair, one differing in start only,
\* one differing in end only.
TimePairs ==
    { <<"00:00:01,000", "00:00:02,000">>,
      <<"00:00:01,500", "00:00:02,000">>,
      <<"00:00:01,000", "00:00:02,500">> }

----------------------------------------------------------------------------
(* Data model *)

\* SubtitleBlock; index and line_number are never read by the validator
\* and are left out of the record.
SubtitleBlock ==
    { [start_time |-> tp[1], end_time |-> tp[2], text_lines |-> tl] :
        tp \in TimePairs, tl \in TextLinesSet }

\* Sequences of blocks of length 0..n.
BlockSeqs(n) == UNION { [1..k -> SubtitleBlock] : k \in 0..n }

\* Python's None for ValidationIssue.block_index (real indices are 1-based).
None == 0

\* text_preview truncates to this many characters.
PreviewLen == 80

\* Exact rationals for match_rate.
Rat(n, d) == [num |-> n, den |-> d]
RatEq(a, b) == a.num * b.den = b.num * a.den
RatLeq(a, b) == a.num * b.den <= b.num * a.den

\* str.strip(): drop leading and trailing whitespace.
RECURSIVE LStrip(_)
LStrip(s) ==
    IF s = <<>> THEN <<>>
    ELSE IF Head(s) \in Whitespace THEN LStrip(Tail(s)) ELSE s

RECURSIVE RStrip(_)
RStrip(s) ==
    IF s = <<>> THEN <<>>
    ELSE IF s[Len(s)] \in Whitespace THEN RStrip(SubSeq(s, 1, Len(s) - 1)) ELSE s

Strip(s) == RStrip(LStrip(s))

\* SubtitleBlock.has_text
has_text(b) ==
    \E k \in 1..Len(b.text_lines) : Strip(b.text_lines[k]) # <<>>

\* SubtitleBlock.text_preview
text_preview(b) ==
    IF Len(b.text_lines) > 0
    THEN LET s == Strip(b.text_lines[1])
         IN  SubSeq(s, 1, IF Len(s) < PreviewLen THEN Len(s) ELSE PreviewLen)
    ELSE <<>>

\* Python's abs()
Abs(x) == IF x < 0 THEN -x ELSE x

----------------------------------------------------------------------------
(* validate_subtitle_pair *)

\* ValidationIssue of the empty-file check (details is left at its default).
EmptyFileIssue ==
    [ issue_type |-> "empty_file", severity |-> "error", block_index |-> None,
      message |-> <<"Target subtitle file is empty">> ]

\* Mutant: the difference is reported with its sign.
BlockCountIssueSigned(en_count, target_count) ==
    [ issue_type |-> "block_count_mismatch", severity |-> "error",
      block_index |-> None,
      message |-> <<"Block count mismatch: ", en_count, " vs ", target_count>>,
      details |-> [ en_count |-> en_count, target_count |-> target_count,
                    difference |-> en_count - target_count ] ]

\* ValidationIssue of the block-count check.
BlockCountIssue(en_count, target_count) ==
    [ issue_type |-> "block_count_mismatch", severity |-> "error",
      block_index |-> None,
      message |-> <<"Block count mismatch: ", en_count, " vs ", target_count>>,
      details |-> [ en_count |-> en_count, target_count |-> target_count,
                    difference |-> Abs(en_count - target_count) ] ]

\* Mutant: block_index is the 0-based loop index.
TimestampIssueZeroBased(en_b, tg_b, idx) ==
    [ issue_type |-> "timestamp_mismatch", severity |-> "error",
      block_index |-> idx,
      message |-> <<"Timestamp mismatch at block ", idx>>,
      details |-> [ en_start |-> en_b.start_time,
                    target_start |-> tg_b.start_time ] ]

\* ValidationIssue of a timestamp mismatch at 0-based position idx.
TimestampIssue(en_b, tg_b, idx) ==
    [ issue_type |-> "timestamp_mismatch", severity |-> "error",
      block_index |-> idx + 1,
      message |-> <<"Timestamp mismatch at block ", idx + 1>>,
      details |-> [ en_start |-> en_b.start_time,
                    target_start |-> tg_b.start_time ] ]

\* Mutant: a missing translation is reported as a warning.
MissingDialogueIssueWarning(en_b, idx) ==
    [ issue_type |-> "missing_dialogue", severity |-> "warning",
      block_index |-> idx + 1,
      message |-> <<"Missing translation in block ", idx + 1>>,
      details |-> [ en_text |-> text_preview(en_b) ] ]

\* ValidationIssue of a missing translation at 0-based position idx.
MissingDialogueIssue(en_b, idx) ==
    [ issue_type |-> "missing_dialogue", severity |-> "error",
      block_index |-> idx + 1,
      message |-> <<"Missing translation in block ", idx + 1>>,
      details |-> [ en_text |-> text_preview(en_b) ] ]

\* Mutant: only the start times are compared.
TimestampsDifferStartOnly(en_b, tg_b) ==
    en_b.start_time # tg_b.start_time

\* Mutant: the reference end time is compared with the target start time.
TimestampsDifferCrossed(en_b, tg_b) ==
    en_b.start_time # tg_b.start_time \/ en_b.end_time # tg_b.start_time

\* The timestamp test of the per-block loop.
TimestampsDiffer(en_b, tg_b) ==
    en_b.start_time # tg_b.start_time \/ en_b.end_time # tg_b.end_time

\* Mutant: zero checked blocks give 0.0, as calculate_match_rate does.
MatchRateZeroWhenUnchecked(checked, errors) ==
    IF checked > 0 THEN Rat((checked - errors) * 100, checked) ELSE Rat(0, 1)

\* Mutant: the rate is taken over all blocks, as calculate_match_rate does.
MatchRateOverAllBlocks(checked, errors) ==
    IF Len(en_blocks) > 0
    THEN Rat((Len(en_blocks) - errors) * 100, Len(en_blocks))
    ELSE Rat(100, 1)

\* match_rate over the checked blocks.
MatchRate(checked, errors) ==
    IF checked > 0 THEN Rat((checked - errors) * 100, checked) ELSE Rat(100, 1)

\* Mutant: only a shorter reference is reported.
CountsDifferShorterOnly(en_count, target_count) == en_count < target_count

\* The test of the block-count check: len(en_blocks) != len(target_blocks)
CountsDiffer(en_count, target_count) == en_count # target_count

\* Mutant: >= in place of ==.
PassedAtLeastZero(errors, iss) == errors >= 0 /\ Len(iss) >= 0

\* passed = error_count == 0 and len(issues) == 0
Passed(errors, iss) == errors = 0 /\ Len(iss) = 0

\* The ValidationResult constructor.
ValidationResult(p, iss, en_count, target_count, rate) ==
    [ filename |-> filename, target_language |-> target_lang, passed |-> p,
      issues |-> iss, en_block_count |-> en_count,
      target_block_count |-> target_count, match_rate |-> rate ]

\* Before the function returns there is no result.
NotReturned == [ returned |-> FALSE ]

InitValidate ==
    /\ en_blocks \in BlockSeqs(MaxBlocks)
    /\ target_blocks \in BlockSeqs(MaxBlocks)
    /\ filename = "movie.srt"
    /\ target_lang = "es"
    /\ pc = "start"
    /\ i = 0
    /\ issues = <<>>
    /\ error_count = 0
    /\ checked_blocks = 0
    /\ result = NotReturned
    /\ lines = <<>>
    /\ cursor = 0
    /\ blocks = <<>>
    /\ parse_pc = "idle"
    /\ iterations = 0
    /\ segments = <<>>
    /\ BridgeIdle
    /\ LoggerIdle
    /\ WorkerIdle
    /\ ApiIdle
    /\ BatchIdle

\* Mutant: en_block_count is reported as 0 as well.
EmptyFileCheckDropsEnCount ==
    /\ pc = "start"
    /\ Len(target_blocks) = 0
    /\ issues' = Append(issues, EmptyFileIssue)
    /\ result' = ValidationResult(FALSE, issues', 0, 0, Rat(0, 1))
    /\ pc' = "done"
    /\ UNCHANGED <<parse_vars, bridge_vars, ext_vars, en_blocks, target_blocks, filename, target_lang, i,
                   error_count, checked_blocks>>

\* Quick check: the target file is empty.
EmptyFileCheck ==
    /\ pc = "start"
    /\ Len(target_blocks) = 0
    /\ issues' = Append(issues, EmptyFileIssue)
    /\ result' = ValidationResult(FALSE, issues', Len(en_blocks), 0, Rat(0, 1))
    /\ pc' = "done"
    /\ UNCHANGED <<parse_vars, bridge_vars, ext_vars, en_blocks, target_blocks, filename, target_lang, i,
                   error_count, checked_blocks>>

\* Quick check: the block counts must match.
BlockCountCheck ==
    /\ pc = "start"
    /\ Len(target_blocks) # 0
    /\ CountsDiffer(Len(en_blocks), Len(target_blocks))
    /\ issues' = Append(issues, BlockCountIssue(Len(en_blocks), Len(target_blocks)))
    /\ result' = ValidationResult(FALSE, issues', Len(en_blocks),
                                  Len(target_blocks), Rat(0, 1))
    /\ pc' = "done"
    /\ UNCHANGED <<parse_vars, bridge_vars, ext_vars, en_blocks, target_blocks, filename, target_lang, i,
                   error_count, checked_blocks>>

\* Both quick checks passed: initialise the counters and enter the loop.
BeginPerBlock ==
    /\ pc = "start"
    /\ Len(target_blocks) # 0
    /\ ~CountsDiffer(Len(en_blocks), Len(target_blocks))
    /\ error_count' = 0
    /\ checked_blocks' = 0
    /\ i' = 0
    /\ pc' = "loop"
    /\ UNCHANGED <<parse_vars, bridge_vars, ext_vars, en_blocks, target_blocks, filename, target_lang, issues, result>>

\* Mutant: checked_blocks is incremented before the silent test.
SkipSilentCounted ==
    /\ pc = "loop"
    /\ i < Len(en_blocks)
    /\ ~has_text(en_blocks[i + 1])
    /\ checked_blocks' = checked_blocks + 1
    /\ i' = i + 1
    /\ UNCHANGED <<parse_vars, bridge_vars, ext_vars, en_blocks, target_blocks, filename, target_lang, pc, issues,
                   error_count, result>>

\* Loop iteration: the reference block is silent and is skipped.
SkipSilent ==
    /\ pc = "loop"
    /\ i < Len(en_blocks)
    /\ ~has_text(en_blocks[i + 1])
    /\ i' = i + 1
    /\ UNCHANGED <<parse_vars, bridge_vars, ext_vars, en_blocks, target_blocks, filename, target_lang, pc, issues,
                   error_count, checked_blocks, result>>

\* Mutant: no continue after the timestamp issue, so the content check runs too.
TimestampMismatchFallThrough ==
    /\ pc = "loop"
    /\ i < Len(en_blocks)
    /\ has_text(en_blocks[i + 1])
    /\ TimestampsDiffer(en_blocks[i + 1], target_blocks[i + 1])
    /\ checked_blocks' = checked_blocks + 1
    /\ IF has_text(target_blocks[i + 1])
       THEN /\ issues' = Append(issues,
                    TimestampIssue(en_blocks[i + 1], target_blocks[i + 1], i))
            /\ error_count' = error_count + 1
       ELSE /\ issues' = Append(Append(issues,
                    TimestampIssue(en_blocks[i + 1], target_blocks[i + 1], i)),
                    MissingDialogueIssue(en_blocks[i + 1], i))
            /\ error_count' = error_count + 2
    /\ i' = i + 1
    /\ UNCHANGED <<parse_vars, bridge_vars, ext_vars, en_blocks, target_blocks, filename, target_lang, pc, result>>

\* Loop iteration: the timestamps differ; the content check is skipped.
TimestampMismatch ==
    /\ pc = "loop"
    /\ i < Len(en_blocks)
    /\ has_text(en_blocks[i + 1])
    /\ TimestampsDiffer(en_blocks[i + 1], target_blocks[i + 1])
    /\ checked_blocks' = checked_blocks + 1
    /\ issues' = Append(issues,
            TimestampIssue(en_blocks[i + 1], target_blocks[i + 1], i))
    /\ error_count' = error_count + 1
    /\ i' = i + 1
    /\ UNCHANGED <<parse_vars, bridge_vars, ext_vars, en_blocks, target_blocks, filename, target_lang, pc, result>>

\* Mutant: the issue is appended but the error counter is not incremented.
MissingDialogueUncounted ==
    /\ pc = "loop"
    /\ i < Len(en_blocks)
    /\ has_text(en_blocks[i + 1])
    /\ ~TimestampsDiffer(en_blocks[i + 1], target_blocks[i + 1])
    /\ ~has_text(target_blocks[i + 1])
    /\ checked_blocks' = checked_blocks + 1
    /\ issues' = Append(issues, MissingDialogueIssue(en_blocks[i + 1], i))
    /\ i' = i + 1
    /\ UNCHANGED <<parse_vars, bridge_vars, ext_vars, en_blocks, target_blocks, filename, target_lang, pc,
                   error_count, result>>

\* Loop iteration: the timestamps match and the target block has no text.
MissingDialogue ==
    /\ pc = "loop"
    /\ i < Len(en_blocks)
    /\ has_text(en_blocks[i + 1])
    /\ ~TimestampsDiffer(en_blocks[i + 1], target_blocks[i + 1])
    /\ ~has_text(target_blocks[i + 1])
    /\ checked_blocks' = checked_blocks + 1
    /\ issues' = Append(issues, MissingDialogueIssue(en_blocks[i + 1], i))
    /\ error_count' = error_count + 1
    /\ i' = i + 1
    /\ UNCHANGED <<parse_vars, bridge_vars, ext_vars, en_blocks, target_blocks, filename, target_lang, pc, result>>

\* Loop iteration: the block is valid; no issue.
ValidBlock ==
    /\ pc = "loop"
    /\ i < Len(en_blocks)
    /\ has_text(en_blocks[i + 1])
    /\ ~TimestampsDiffer(en_blocks[i + 1], target_blocks[i + 1])
    /\ has_text(target_blocks[i + 1])
    /\ checked_blocks' = checked_blocks + 1
    /\ i' = i + 1
    /\ UNCHANGED <<parse_vars, bridge_vars, ext_vars, en_blocks, target_blocks, filename, target_lang, pc, issues,
                   error_count, result>>

\* After the loop: match rate, verdict and return.
Finish ==
    /\ pc = "loop"
    /\ i >= Len(en_blocks)
    /\ result' = ValidationResult(Passed(error_count, issues), issues,
                                  Len(en_blocks), Len(target_blocks),
                                  MatchRate(checked_blocks, error_count))
    /\ pc' = "done"
    /\ UNCHANGED <<parse_vars, bridge_vars, ext_vars, en_blocks, target_blocks, filename, target_lang, i, issues,
                   error_count, checked_blocks>>

NextValidate ==
    \/ EmptyFileCheck
    \/ BlockCountCheck
    \/ BeginPerBlock
    \/ SkipSilent
    \/ TimestampMismatch
    \/ MissingDialogue
    \/ ValidBlock
    \/ Finish

SpecValidate == InitValidate /\ [][NextValidate]_vars

----------------------------------------------------------------------------
(* parse_srt_file: characters, lines and the timestamp pattern *)

\* Largest number of lines of an input text.
MaxLines == 4

Digits == {"0", "1", "2", "3", "4", "5", "6", "7", "8", "9"}

\* Clock values HH:MM:SS,mmm.
Clock1 == <<"0", "0", ":", "0", "0", ":", "0", "1", ",", "0", "0", "0">>
Clock2 == <<"0", "0", ":", "0", "0", ":", "0", "2", ",", "0", "0", "0">>
Clock3 == <<"0", "0", ":", "0", "0", ":", "0", "3", ",", "0", "0", "0">>
Clock4 == <<"0", "0", ":", "0", "0", ":", "0", "4", ",", "0", "0", "0">>

\* Timestamp lines: the usual form, and one without spaces around the
\* arrow and with surrounding whitespace.
TsLineA == Clock1 \o <<" ", "-", "-", ">", " ">> \o Clock2
TsLineB == <<" ">> \o Clock3 \o <<"-", "-", ">">> \o Clock4 \o <<" ">>

\* A line that looks like a timestamp line and is none: '.' for ','.
BadTsLine ==
    <<"0", "0", ":", "0", "0", ":", "0", "1", ".", "0", "0", "0">> \o <<" ", "-", "-", ">", " ">> \o Clock2

\* Numeric lines, dialogue lines, blank lines.
NumLine1 == <<"1">>
NumLine2 == <<" ", "2", "0">>
TextLine == <<"H", "e", "y">>
PaddedTextLine == <<" ", "O", "k", " ">>
SpaceLine == <<" ">>

LineSet ==
    { EmptyLine, SpaceLine, NumLine1, NumLine2, TsLineA, TsLineB, BadTsLine,
      TextLine, PaddedTextLine }

\* text.split("\n") never returns an empty list.
LineSeqs(n) == UNION { [1..k -> LineSet] : k \in 1..n }

\* Python's None for SubtitleBlock.index (a parsed index is >= 0).
NoIndex == -1

\* Python's None as the result of parse_timestamp_line.
NoTimestamp == <<>>

\* str.isdigit()
isdigit(s) == s # <<>> /\ \A k \in 1..Len(s) : s[k] \in Digits

DigitValue(c) ==
    CASE c = "0" -> 0 [] c = "1" -> 1 [] c = "2" -> 2 [] c = "3" -> 3
      [] c = "4" -> 4 [] c = "5" -> 5 [] c = "6" -> 6 [] c = "7" -> 7
      [] c = "8" -> 8 [] c = "9" -> 9

\* int() of a string of digits.
RECURSIVE int(_)
int(s) ==
    IF s = <<>> THEN 0
    ELSE 10 * int(SubSeq(s, 1, Len(s) - 1)) + DigitValue(s[Len(s)])

\* Mutant: '.' is accepted before the milliseconds as well.
MatchesClockLenient(s, p) ==
    /\ p + 11 <= Len(s)
    /\ \A k \in {0, 1, 3, 4, 6, 7, 9, 10, 11} : s[p + k] \in Digits
    /\ s[p + 2] = ":"
    /\ s[p + 5] = ":"
    /\ s[p + 8] \in {",", "."}

\* \d{2}:\d{2}:\d{2},\d{3} at position p of s.
MatchesClock(s, p) ==
    /\ p + 11 <= Len(s)
    /\ \A k \in {0, 1, 3, 4, 6, 7, 9, 10, 11} : s[p + k] \in Digits
    /\ s[p + 2] = ":"
    /\ s[p + 5] = ":"
    /\ s[p + 8] = ","

\* \s* from position p of s: the position after the whitespace.
RECURSIVE SkipWhitespace(_, _)
SkipWhitespace(s, p) ==
    IF p <= Len(s) /\ s[p] \in Whitespace THEN SkipWhitespace(s, p + 1) ELSE p

\* The string the code rebuilds from the four groups of a clock value.
ClockGroups(s, p) ==
    SubSeq(s, p, p + 1) \o <<":">> \o SubSeq(s, p + 3, p + 4) \o <<":">>
        \o SubSeq(s, p + 6, p + 7) \o <<",">> \o SubSeq(s, p + 9, p + 11)

\* Mutant: the arrow needs a whitespace character on each side.
parse_timestamp_line_spaced(line) ==
    LET s == Strip(line)
        a == SkipWhitespace(s, 13)
        b == SkipWhitespace(s, a + 3)
    IN  IF /\ MatchesClock(s, 1)
           /\ a > 13
           /\ a + 2 <= Len(s)
           /\ SubSeq(s, a, a + 2) = <<"-", "-", ">">>
           /\ b > a + 3
           /\ MatchesClock(s, b)
           /\ b + 11 = Len(s)
        THEN <<ClockGroups(s, 1), ClockGroups(s, b)>>
        ELSE NoTimestamp

\* parse_timestamp_line: TIMESTAMP_RE.match(line.strip())
parse_timestamp_line(line) ==
    LET s == Strip(line)
        a == SkipWhitespace(s, 13)
        b == SkipWhitespace(s, a + 3)
    IN  IF /\ MatchesClock(s, 1)
           /\ a + 2 <= Len(s)
           /\ SubSeq(s, a, a + 2) = <<"-", "-", ">">>
           /\ MatchesClock(s, b)
           /\ b + 11 = Len(s)
        THEN <<ClockGroups(s, 1), ClockGroups(s, b)>>
        ELSE NoTimestamp

----------------------------------------------------------------------------
(* parse_srt_file: the scan loop *)

\* The inner loop that skips empty lines, from 0-based position k.
RECURSIVE SkipBlank(_, _)
SkipBlank(ls, k) ==
    IF k < Len(ls) /\ Strip(ls[k + 1]) = <<>> THEN SkipBlank(ls, k + 1) ELSE k

\* Whether the line after the empty lines is taken as a block index.
HasIndex(ls, k) == isdigit(Strip(ls[k + 1]))

\* The position of the line tried as a timestamp line.
HeaderPos(ls, k) == IF HasIndex(ls, k) THEN k + 1 ELSE k

\* Mutant: a numeric line always ends the text, without the lookahead.
StopsTextNoLookahead(ls, k) ==
    LET stripped == Strip(ls[k + 1])
    IN  \/ stripped = <<>>
        \/ isdigit(stripped)
        \/ parse_timestamp_line(stripped) # NoTimestamp

\* Mutant: a timestamp line does not end the text.
StopsTextNoRecovery(ls, k) ==
    LET stripped == Strip(ls[k + 1])
    IN  \/ stripped = <<>>
        \/ /\ isdigit(stripped)
           /\ k + 1 < Len(ls)
           /\ parse_timestamp_line(Strip(ls[k + 2])) # NoTimestamp

\* Whether the line at 0-based position k ends the collection of text.
StopsText(ls, k) ==
    LET stripped == Strip(ls[k + 1])
    IN  \/ stripped = <<>>
        \/ /\ isdigit(stripped)
           /\ k + 1 < Len(ls)
           /\ parse_timestamp_line(Strip(ls[k + 2])) # NoTimestamp
        \/ parse_timestamp_line(stripped) # NoTimestamp

\* The inner loop that collects text lines: the position where it ends.
RECURSIVE CollectEnd(_, _)
CollectEnd(ls, k) ==
    IF k < Len(ls) /\ ~StopsText(ls, k) THEN CollectEnd(ls, k + 1) ELSE k

\* The text lines collected from position from up to position to.
CollectedText(ls, from, to) ==
    [ j \in 1..(to - from) |-> RStrip(ls[from + j]) ]

\* Mutant: a missing index is replaced by the block's ordinal.
ParsedBlockNumbered(index, ts, text_lines, line_number) ==
    [ index |-> IF index = NoIndex THEN Len(blocks) + 1 ELSE index,
      start_time |-> ts[1], end_time |-> ts[2],
      text_lines |-> text_lines, line_number |-> line_number ]

\* The SubtitleBlock constructor of the parser.
ParsedBlock(index, ts, text_lines, line_number) ==
    [ index |-> index, start_time |-> ts[1], end_time |-> ts[2],
      text_lines |-> text_lines, line_number |-> line_number ]

InitParseState ==
    /\ cursor = 0
    /\ blocks = <<>>
    /\ parse_pc = "scan"
    /\ iterations = 0
    /\ en_blocks = <<>>
    /\ target_blocks = <<>>
    /\ filename = ""
    /\ target_lang = ""
    /\ pc = "idle"
    /\ i = 0
    /\ issues = <<>>
    /\ error_count = 0
    /\ checked_blocks = 0
    /\ result = NotReturned
    /\ BridgeIdle
    /\ LoggerIdle
    /\ WorkerIdle
    /\ ApiIdle
    /\ BatchIdle

\* Largest number of captions of a generated file.
MaxSegments == 3

\* The index line of the k-th caption of a generated file.
IndexLine(k) ==
    CASE k = 1 -> <<"1">> [] k = 2 -> <<"2">> [] k = 3 -> <<"3">>
      [] k = 4 -> <<"4">> [] k = 5 -> <<"5">> [] k = 6 -> <<"6">>
      [] k = 7 -> <<"7">> [] k = 8 -> <<"8">> [] k = 9 -> <<"9">>

\* Second lines of a caption: timestamp lines, and what a corrupted
\* caption has in their place.
HeaderLines == { TsLineA, TsLineB, BadTsLine, TextLine, NumLine1, EmptyLine }

\* Text of a caption: none, a numeric line, two lines.
CaptionTexts == { <<>>, <<NumLine2>>, <<PaddedTextLine, TextLine>> }

Segment == [ header : HeaderLines, text : CaptionTexts ]

SegmentSeqs(n) == UNION { [1..k -> Segment] : k \in 1..n }

\* The lines of content.split("\n") for the content create_test_srt_file
\* writes: per caption its index, second line, text and an empty line.
RECURSIVE FileLines(_, _)
FileLines(segs, k) ==
    IF k > Len(segs) THEN <<EmptyLine>>
    ELSE <<IndexLine(k), segs[k].header>> \o segs[k].text \o <<EmptyLine>>
             \o FileLines(segs, k + 1)

\* Any text of up to MaxLines lines.
InitParseLines ==
    /\ lines \in LineSeqs(MaxLines)
    /\ segments = <<>>
    /\ InitParseState

\* A generated file of up to MaxSegments captions.
InitParseFile ==
    /\ segments \in SegmentSeqs(MaxSegments)
    /\ lines = FileLines(segments, 1)
    /\ InitParseState

InitParse == InitParseLines \/ InitParseFile

\* The while condition fails: return blocks.
ParseReturn ==
    /\ parse_pc = "scan"
    /\ cursor >= Len(lines)
    /\ parse_pc' = "returned"
    /\ UNCHANGED <<validate_vars, bridge_vars, ext_vars, lines, cursor, blocks, iterations, segments>>

\* Only empty lines are left: break and return.
ScanEnd ==
    /\ parse_pc = "scan"
    /\ cursor < Len(lines)
    /\ SkipBlank(lines, cursor) >= Len(lines)
    /\ cursor' = SkipBlank(lines, cursor)
    /\ parse_pc' = "returned"
    /\ iterations' = iterations + 1
    /\ UNCHANGED <<validate_vars, bridge_vars, ext_vars, lines, blocks, segments>>

\* An index line is the last line: break and return.
IndexAtEnd ==
    /\ parse_pc = "scan"
    /\ cursor < Len(lines)
    /\ LET k == SkipBlank(lines, cursor)
       IN  /\ k < Len(lines)
           /\ HasIndex(lines, k)
           /\ k + 1 >= Len(lines)
           /\ cursor' = k + 1
    /\ parse_pc' = "returned"
    /\ iterations' = iterations + 1
    /\ UNCHANGED <<validate_vars, bridge_vars, ext_vars, lines, blocks, segments>>

\* Mutant: the cursor is not advanced when the timestamp does not parse.
SkipLineStuck ==
    /\ parse_pc = "scan"
    /\ cursor < Len(lines)
    /\ LET k == SkipBlank(lines, cursor)
       IN  /\ k < Len(lines)
           /\ HeaderPos(lines, k) < Len(lines)
           /\ parse_timestamp_line(Strip(lines[HeaderPos(lines, k) + 1])) = NoTimestamp
           /\ cursor' = HeaderPos(lines, k)
    /\ iterations' = iterations + 1
    /\ UNCHANGED <<validate_vars, bridge_vars, ext_vars, lines, blocks, parse_pc, segments>>

\* The line is no timestamp line: advance one line and scan on.
SkipLine ==
    /\ parse_pc = "scan"
    /\ cursor < Len(lines)
    /\ LET k == SkipBlank(lines, cursor)
       IN  /\ k < Len(lines)
           /\ HeaderPos(lines, k) < Len(lines)
           /\ parse_timestamp_line(Strip(lines[HeaderPos(lines, k) + 1])) = NoTimestamp
           /\ cursor' = HeaderPos(lines, k) + 1
    /\ iterations' = iterations + 1
    /\ UNCHANGED <<validate_vars, bridge_vars, ext_vars, lines, blocks, parse_pc, segments>>

\* Mutant: a block without text lines is not appended.
EmitBlockDropsSilent ==
    /\ parse_pc = "scan"
    /\ cursor < Len(lines)
    /\ LET k == SkipBlank(lines, cursor)
       IN  /\ k < Len(lines)
           /\ HeaderPos(lines, k) < Len(lines)
           /\ LET h == HeaderPos(lines, k)
                  ts == parse_timestamp_line(Strip(lines[h + 1]))
                  index == IF HasIndex(lines, k)
                           THEN int(Strip(lines[k + 1])) ELSE NoIndex
                  to == CollectEnd(lines, h + 1)
              IN  /\ ts # NoTimestamp
                  /\ cursor' = to
                  /\ blocks' = IF to = h + 1 THEN blocks
                                ELSE Append(blocks,
                                         ParsedBlock(index, ts,
                                             CollectedText(lines, h + 1, to), k + 1))
    /\ iterations' = iterations + 1
    /\ UNCHANGED <<validate_vars, bridge_vars, ext_vars, lines, parse_pc, segments>>

\* A timestamp line: collect its text lines and append the block.
EmitBlock ==
    /\ parse_pc = "scan"
    /\ cursor < Len(lines)
    /\ LET k == SkipBlank(lines, cursor)
       IN  /\ k < Len(lines)
           /\ HeaderPos(lines, k) < Len(lines)
           /\ LET h == HeaderPos(lines, k)
                  ts == parse_timestamp_line(Strip(lines[h + 1]))
                  index == IF HasIndex(lines, k)
                           THEN int(Strip(lines[k + 1])) ELSE NoIndex
                  to == CollectEnd(lines, h + 1)
              IN  /\ ts # NoTimestamp
                  /\ cursor' = to
                  /\ blocks' = Append(blocks,
                         ParsedBlock(index, ts, CollectedText(lines, h + 1, to), k + 1))
    /\ iterations' = iterations + 1
    /\ UNCHANGED <<validate_vars, bridge_vars, ext_vars, lines, parse_pc, segments>>

NextParse ==
    \/ ParseReturn
    \/ ScanEnd
    \/ IndexAtEnd
    \/ SkipLine
    \/ EmitBlock

SpecParse == InitParse /\ [][NextParse]_vars

----------------------------------------------------------------------------
(* srt_utils.parse_srt: the regular expression over the whole text *)

\* Characters that \s of the pattern matches.
RegexSpace == Whitespace \cup {"\n"}

\* The text whose split at "\n" is ls.
RECURSIVE Content(_)
Content(ls) ==
    IF Len(ls) = 1 THEN ls[1]
    ELSE ls[1] \o <<"\n">> \o Content(Tail(ls))

\* \d* from position p of s: the position after the digits.
RECURSIVE DigitsEnd(_, _)
DigitsEnd(s, p) ==
    IF p <= Len(s) /\ s[p] \in Digits THEN DigitsEnd(s, p + 1) ELSE p

\* \s* from position p of s: the position after the whitespace.
RECURSIVE SpaceEnd(_, _)
SpaceEnd(s, p) ==
    IF p <= Len(s) /\ s[p] \in RegexSpace THEN SpaceEnd(s, p + 1) ELSE p

\* (?=\n\d+\n|\Z) at position w of s.
AtLookahead(s, w) ==
    \/ w = Len(s) + 1
    \/ /\ w <= Len(s)
       /\ s[w] = "\n"
       /\ DigitsEnd(s, w + 1) > w + 1
       /\ DigitsEnd(s, w + 1) <= Len(s)
       /\ s[DigitsEnd(s, w + 1)] = "\n"

\* (\d+)\s+(clock) --> (clock)\s+ at position q of s: the position where
\* the text group starts, or 0 when the pattern does not match there.
HeaderEnd(s, q) ==
    LET d == DigitsEnd(s, q)
        c == SpaceEnd(s, d)
        t == SpaceEnd(s, c + 29)
    IN  IF /\ d > q
           /\ c > d
           /\ MatchesClock(s, c)
           /\ c + 16 <= Len(s)
           /\ SubSeq(s, c + 12, c + 16) = <<" ", "-", "-", ">", " ">>
           /\ MatchesClock(s, c + 17)
           /\ t > c + 29
        THEN t
        ELSE 0

\* \s*(?=...) after a text group that ends before position e: the
\* position where the match ends (the longest whitespace first), or 0.
RECURSIVE MatchEnd(_, _, _)
MatchEnd(s, e, w) ==
    IF w < e THEN 0
    ELSE IF AtLookahead(s, w) THEN w
    ELSE MatchEnd(s, e, w - 1)

\* (.*?) from position e on: the first position where the text group can
\* end.
RECURSIVE TextEnd(_, _)
TextEnd(s, e) ==
    IF MatchEnd(s, e, SpaceEnd(s, e)) # 0 THEN e ELSE TextEnd(s, e + 1)

\* str.split("\n")
RECURSIVE SplitNewline(_)
SplitNewline(s) ==
    IF \E k \in 1..Len(s) : s[k] = "\n"
    THEN LET k == CHOOSE j \in 1..Len(s) :
                      s[j] = "\n" /\ \A m \in 1..(j - 1) : s[m] # "\n"
         IN  <<SubSeq(s, 1, k - 1)>> \o SplitNewline(SubSeq(s, k + 1, Len(s)))
    ELSE <<s>>

\* [line.strip() for line in text.split("\n") if line.strip()]
RECURSIVE StrippedLines(_)
StrippedLines(ls) ==
    IF ls = <<>> THEN <<>>
    ELSE IF Strip(Head(ls)) = <<>> THEN StrippedLines(Tail(ls))
    ELSE <<Strip(Head(ls))>> \o StrippedLines(Tail(ls))

\* The block built from the match that starts at position q of s.
MatchedBlock(s, q) ==
    LET d == DigitsEnd(s, q)
        c == SpaceEnd(s, d)
        t == HeaderEnd(s, q)
    IN  [ index |-> SubSeq(s, q, d - 1),
          start |-> SubSeq(s, c, c + 11),
          end |-> SubSeq(s, c + 17, c + 28),
          lines |-> StrippedLines(SplitNewline(SubSeq(s, t, TextEnd(s, t) - 1))) ]

\* pattern.findall from position p of s on: the matches from left to
\* right, each search starting where the match before ended.
RECURSIVE FindAll(_, _)
FindAll(s, p) ==
    IF p > Len(s) THEN <<>>
    ELSE IF HeaderEnd(s, p) = 0 THEN FindAll(s, p + 1)
    ELSE LET e == TextEnd(s, HeaderEnd(s, p))
         IN  <<MatchedBlock(s, p)>> \o FindAll(s, MatchEnd(s, e, SpaceEnd(s, e)))

\* srt_utils.parse_srt
parse_srt(content) == FindAll(content, 1)

----------------------------------------------------------------------------
(* translate_files and translate_single_file (translator_bridge.py)        *)

\* Largest number of files found in the source folder.
MaxFiles == 2

\* max_workers of the executor of translate_files is min(len(srt_files), 4).
PoolSize == 4

SrtSuffix == <<".", "s", "r", "t">>

\* The .srt files of a source folder in the order os.walk finds them; two
\* pairs of them have the same name in different folders.
Walk ==
    << <<"s", "/", "a">> \o SrtSuffix,
       <<"t", "/", "a">> \o SrtSuffix,
       <<"t", "/", "b">> \o SrtSuffix,
       <<"u", "/", "b">> \o SrtSuffix >>

\* srt_files: up to n consecutive files of the walk.
WalkResults(n) ==
    { SubSeq(Walk, r[1], r[2]) :
          r \in { p \in (1..Len(Walk)) \X (1..Len(Walk)) :
                      p[1] <= p[2] /\ p[2] - p[1] < n } }

\* languages, as the caller passes them.
LanguageLists ==
    { << <<"f", "r">> >>,
      << <<"f", "r">>, <<"H", "I">> >> }

\* str.upper and str.lower on the characters of the language names.
Upper(c) ==
    CASE c = "f" -> "F" [] c = "r" -> "R" [] c = "h" -> "H" [] c = "i" -> "I"
      [] OTHER -> c

Lower(c) ==
    CASE c = "F" -> "f" [] c = "R" -> "r" [] c = "H" -> "h" [] c = "I" -> "i"
      [] OTHER -> c

\* str.capitalize: first character upper case, the others lower case.
Capitalize(s) ==
    [ k \in 1..Len(s) |-> IF k = 1 THEN Upper(s[k]) ELSE Lower(s[k]) ]

\* os.path.basename: what follows the last "/".
RECURSIVE Basename(_)
Basename(path) ==
    IF \E k \in 1..Len(path) : path[k] = "/"
    THEN Basename(Tail(path))
    ELSE path

\* The key f"{filename}_{lang_name}".
LanguageKey(path, lang) == Basename(path) \o <<"_">> \o Capitalize(lang)

\* d[k] = v on a dict.
Put(d, k, v) == [ x \in DOMAIN d \cup {k} |-> IF x = k THEN v ELSE d[x] ]

Min(a, b) == IF a <= b THEN a ELSE b

Files == 1..Len(srt_files)

Langs == 1..Len(languages)

\* The dict a call of translate_single_file returns.
FileResult(success, partial_failure, task_count) ==
    [ success |-> success, partial_failure |-> partial_failure,
      task_count |-> task_count ]

NoFileResult == FileResult(FALSE, FALSE, 0)

\* The store into failed_files a call of translate_single_file is about to
\* make, and whether it returns after it.
PendingStore(key, error, returns, res) ==
    [ key |-> key, error |-> error, returns |-> returns, result |-> res ]

NoPending == PendingStore(<<>>, "", FALSE, NoFileResult)

\* A task that failed: a file (lang = 0) or a language of a file.
FailedTask(f, l, error) == [ file |-> f, lang |-> l, error |-> error ]

\* Mutant: a store into the dict may begin while another one is under way.
CanEnterWriteAlways == TRUE

\* The interpreter executes the store d[k] = v of one thread at a time:
\* the code takes no lock of its own around lines 460, 501, 523 and 540.
CanEnterWrite == writers = {}

InitTranslate ==
    /\ srt_files \in WalkResults(MaxFiles)
    /\ languages \in LanguageLists
    /\ parallel_files \in BOOLEAN
    /\ parallel_languages \in BOOLEAN
    /\ main_pc = "start"
    /\ collected = {}
    /\ current_task = 0
    /\ progress = <<>>
    /\ bridge_result = NoBridgeResult
    /\ file_pc = [ f \in Files |-> "unstarted" ]
    /\ worker = [ f \in Files |-> [ l \in Langs |-> "unsubmitted" ] ]
    /\ pending = [ f \in Files |-> NoPending ]
    /\ file_failed = [ f \in Files |-> FALSE ]
    /\ file_result = [ f \in Files |-> NoFileResult ]
    /\ failed_tasks = {}
    /\ writers = {}
    /\ snapshot = [ f \in Files |-> <<>> ]
    /\ failed_files = <<>>
    /\ lines = <<>>
    /\ segments = <<>>
    /\ cursor = 0
    /\ blocks = <<>>
    /\ parse_pc = "idle"
    /\ iterations = 0
    /\ en_blocks = <<>>
    /\ target_blocks = <<>>
    /\ filename = ""
    /\ target_lang = ""
    /\ pc = "idle"
    /\ i = 0
    /\ issues = <<>>
    /\ error_count = 0
    /\ checked_blocks = 0
    /\ result = NotReturned
    /\ LoggerIdle
    /\ WorkerIdle
    /\ ApiIdle
    /\ BatchIdle

\* parallel_files: every file is submitted to the executor.
SubmitFiles ==
    /\ main_pc = "start"
    /\ parallel_files
    /\ file_pc' = [ f \in Files |-> "queued" ]
    /\ main_pc' = "collect"
    /\ UNCHANGED <<validate_vars, parse_vars, ext_vars, bridge_input, dict_state,
                   collected, current_task, progress, bridge_result,
                   worker, pending, file_failed, file_result, failed_tasks>>

\* A thread of the executor takes a submitted file.
RunFile(f) ==
    /\ file_pc[f] = "queued"
    /\ Cardinality({ g \in Files : file_pc[g] \notin {"queued", "returned"} })
           < Min(Len(srt_files), PoolSize)
    /\ file_pc' = [ file_pc EXCEPT ![f] = "start" ]
    /\ UNCHANGED <<validate_vars, parse_vars, ext_vars, bridge_input, dict_state,
                   main_state, worker, pending, file_failed, file_result,
                   failed_tasks>>

\* The main thread adds a result to current_task and reports it, unless
\* the result is a failure.
Account(r) ==
    IF r.success \/ r.partial_failure
    THEN /\ current_task' = current_task + r.task_count
         /\ progress' = Append(progress, current_task + r.task_count)
    ELSE UNCHANGED <<current_task, progress>>

\* as_completed in translate_files hands over the result of a file.
CollectFuture(f) ==
    /\ main_pc = "collect"
    /\ file_pc[f] = "returned"
    /\ f \notin collected
    /\ collected' = collected \cup {f}
    /\ Account(file_result[f])
    /\ UNCHANGED <<validate_vars, parse_vars, ext_vars, bridge_input, dict_state,
                   file_state, main_pc, bridge_result>>

\* Sequential files: the loop over srt_files.
BeginLoop ==
    /\ main_pc = "start"
    /\ ~parallel_files
    /\ main_pc' = "call"
    /\ UNCHANGED <<validate_vars, parse_vars, ext_vars, bridge_input, dict_state,
                   file_state, collected, current_task, progress,
                   bridge_result>>

\* Sequential files: translate_single_file is called for the next file.
CallSingleFile ==
    /\ main_pc = "call"
    /\ Cardinality(collected) < Len(srt_files)
    /\ file_pc' = [ file_pc EXCEPT ![Cardinality(collected) + 1] = "start" ]
    /\ main_pc' = "wait"
    /\ UNCHANGED <<validate_vars, parse_vars, ext_vars, bridge_input, dict_state,
                   collected, current_task, progress, bridge_result,
                   worker, pending, file_failed, file_result, failed_tasks>>

\* Sequential files: the call has returned.
TakeResult ==
    LET f == Cardinality(collected) + 1
    IN  /\ main_pc = "wait"
        /\ file_pc[f] = "returned"
        /\ collected' = collected \cup {f}
        /\ Account(file_result[f])
        /\ main_pc' = "call"
        /\ UNCHANGED <<validate_vars, parse_vars, ext_vars, bridge_input, dict_state,
                       file_state, bridge_result>>

\* The final result of translate_files.
FinalStatus ==
    /\ main_pc \in {"collect", "call"}
    /\ collected = Files
    /\ bridge_result' =
           [ returned |-> TRUE, success |-> TRUE, completed |-> TRUE,
             had_errors |-> failed_files # <<>>,
             failed_files |-> failed_files ]
    /\ main_pc' = "returned"
    /\ UNCHANGED <<validate_vars, parse_vars, ext_vars, bridge_input, dict_state,
                   file_state, collected, current_task, progress>>

\* translate_single_file: an exception outside the parse step.
UnexpectedError(f) ==
    /\ file_pc[f] = "start"
    /\ pending' = [ pending EXCEPT ![f] =
           PendingStore(Basename(srt_files[f]), "unexpected_error", TRUE,
                        FileResult(FALSE, FALSE, 0)) ]
    /\ failed_tasks' = failed_tasks \cup {FailedTask(f, 0, "unexpected_error")}
    /\ file_pc' = [ file_pc EXCEPT ![f] = "store" ]
    /\ UNCHANGED <<validate_vars, parse_vars, ext_vars, bridge_input, dict_state,
                   main_state, worker, file_failed, file_result>>

\* translate_single_file: the source file cannot be read or has no blocks.
ParseFails(f) ==
    /\ file_pc[f] = "start"
    /\ pending' = [ pending EXCEPT ![f] =
           PendingStore(Basename(srt_files[f]), "parse_error", TRUE,
                        FileResult(FALSE, FALSE, Len(languages))) ]
    /\ failed_tasks' = failed_tasks \cup {FailedTask(f, 0, "parse_error")}
    /\ file_pc' = [ file_pc EXCEPT ![f] = "store" ]
    /\ UNCHANGED <<validate_vars, parse_vars, ext_vars, bridge_input, dict_state,
                   main_state, worker, file_failed, file_result>>

\* translate_single_file: the source file is parsed; with
\* parallel_languages every language is submitted to an executor.
ParseOk(f) ==
    /\ file_pc[f] = "start"
    /\ file_pc' = [ file_pc EXCEPT ![f] = "langs" ]
    /\ worker' = [ worker EXCEPT ![f] =
           IF parallel_languages THEN [ l \in Langs |-> "running" ] ELSE @ ]
    /\ UNCHANGED <<validate_vars, parse_vars, ext_vars, bridge_input, dict_state,
                   main_state, pending, file_failed, file_result,
                   failed_tasks>>

\* Sequential languages: translate_file_worker is called for the next one.
CallWorker(f, l) ==
    /\ file_pc[f] = "langs"
    /\ ~parallel_languages
    /\ worker[f][l] = "unsubmitted"
    /\ \A m \in Langs : /\ m < l => worker[f][m] = "collected"
                        /\ m > l => worker[f][m] = "unsubmitted"
    /\ worker' = [ worker EXCEPT ![f][l] = "running" ]
    /\ UNCHANGED <<validate_vars, parse_vars, ext_vars, bridge_input, dict_state,
                   main_state, file_pc, pending, file_failed, file_result,
                   failed_tasks>>

\* translate_file_worker returns a dict with success true or false.
WorkerReturns(f, l, success) ==
    /\ worker[f][l] = "running"
    /\ worker' = [ worker EXCEPT ![f][l] = IF success THEN "ok" ELSE "failed" ]
    /\ failed_tasks' =
           IF success THEN failed_tasks
           ELSE failed_tasks \cup {FailedTask(f, l, "worker_error")}
    /\ UNCHANGED <<validate_vars, parse_vars, ext_vars, bridge_input, dict_state,
                   main_state, file_pc, pending, file_failed, file_result>>

\* translate_single_file takes the result of a language that succeeded.
LanguageDone(f, l) ==
    /\ file_pc[f] = "langs"
    /\ worker[f][l] = "ok"
    /\ worker' = [ worker EXCEPT ![f][l] = "collected" ]
    /\ UNCHANGED <<validate_vars, parse_vars, ext_vars, bridge_input, dict_state,
                   main_state, file_pc, pending, file_failed, file_result,
                   failed_tasks>>

\* translate_single_file takes the result of a language that failed.
LanguageFailed(f, l) ==
    /\ file_pc[f] = "langs"
    /\ worker[f][l] = "failed"
    /\ worker' = [ worker EXCEPT ![f][l] = "collected" ]
    /\ file_failed' = [ file_failed EXCEPT ![f] = TRUE ]
    /\ pending' = [ pending EXCEPT ![f] =
           PendingStore(LanguageKey(srt_files[f], languages[l]),
                        "worker_error", FALSE, NoFileResult) ]
    /\ file_pc' = [ file_pc EXCEPT ![f] = "store" ]
    /\ UNCHANGED <<validate_vars, parse_vars, ext_vars, bridge_input, dict_state,
                   main_state, file_result, failed_tasks>>

\* failed_files[key] = error: the store begins.
StoreBegin(f) ==
    /\ file_pc[f] = "store"
    /\ f \notin writers
    /\ CanEnterWrite
    /\ writers' = writers \cup {f}
    /\ snapshot' = [ snapshot EXCEPT ![f] = failed_files ]
    /\ UNCHANGED <<validate_vars, parse_vars, ext_vars, bridge_input, main_state,
                   file_state, failed_files>>

\* failed_files[key] = error: the store is done; translate_single_file
\* returns or goes on with the languages.
StoreEnd(f) ==
    /\ f \in writers
    /\ failed_files' = Put(snapshot[f], pending[f].key, pending[f].error)
    /\ writers' = writers \ {f}
    /\ file_pc' = [ file_pc EXCEPT ![f] =
           IF pending[f].returns THEN "returned" ELSE "langs" ]
    /\ file_result' = [ file_result EXCEPT ![f] =
           IF pending[f].returns THEN pending[f].result ELSE @ ]
    /\ pending' = [ pending EXCEPT ![f] = NoPending ]
    /\ UNCHANGED <<validate_vars, parse_vars, ext_vars, bridge_input, main_state,
                   snapshot, worker, file_failed, failed_tasks>>

\* translate_single_file returns after the last language.
SingleFileReturns(f) ==
    /\ file_pc[f] = "langs"
    /\ \A l \in Langs : worker[f][l] = "collected"
    /\ file_result' = [ file_result EXCEPT ![f] =
           FileResult(TRUE, file_failed[f], Len(languages)) ]
    /\ file_pc' = [ file_pc EXCEPT ![f] = "returned" ]
    /\ UNCHANGED <<validate_vars, parse_vars, ext_vars, bridge_input, dict_state,
                   main_state, worker, pending, file_failed, failed_tasks>>

NextTranslate ==
    \/ SubmitFiles
    \/ BeginLoop
    \/ CallSingleFile
    \/ TakeResult
    \/ FinalStatus
    \/ \E f \in Files :
           \/ RunFile(f)
           \/ CollectFuture(f)
           \/ UnexpectedError(f)
           \/ ParseFails(f)
           \/ ParseOk(f)
           \/ StoreBegin(f)
           \/ StoreEnd(f)
           \/ SingleFileReturns(f)
           \/ \E l \in Langs :
                  \/ CallWorker(f, l)
                  \/ \E success \in BOOLEAN : WorkerReturns(f, l, success)
                  \/ LanguageDone(f, l)
                  \/ LanguageFailed(f, l)

SpecTranslate == InitTranslate /\ [][NextTranslate]_vars

----------------------------------------------------------------------------
(* ErrorLogger (error_handler.py)                                          *)

\* The three functions of the core are not running.
CoreIdle ==
    /\ en_blocks = <<>>
    /\ target_blocks = <<>>
    /\ filename = ""
    /\ target_lang = ""
    /\ pc = "idle"
    /\ i = 0
    /\ issues = <<>>
    /\ error_count = 0
    /\ checked_blocks = 0
    /\ result = NotReturned
    /\ lines = <<>>
    /\ segments = <<>>
    /\ cursor = 0
    /\ blocks = <<>>
    /\ parse_pc = "idle"
    /\ iterations = 0
    /\ BridgeIdle

\* Largest number of log_error calls.
MaxLogCalls == 3

\* Python's None as a language or as a returned value.
NoLanguage == <<"None">>

\* get_failed_files has not been called since the last log_error.
NotCalled == <<"not called">>

\* The filename arguments of log_error.
LoggedNames == { <<"a">>, <<"a", "_", "b">> }

\* The language arguments of log_error: none, empty, and three names.
LoggedLanguages ==
    { NoLanguage, <<>>, <<"c">>, <<"H", "i">>, <<"b", "_", "c">> }

\* The fields of an ErrorRecord that the tracking uses.
ErrorRecord(name, language) == [ filename |-> name, language |-> language ]

\* key = f"{filename}_{language}" if language else filename
FailedKey(name, language) ==
    IF language # NoLanguage /\ language # <<>>
    THEN name \o <<"_">> \o language
    ELSE name

\* The position of key in the dict, or 0.
KeyPosition(d, key) ==
    IF \E k \in 1..Len(d) : d[k].key = key
    THEN CHOOSE k \in 1..Len(d) : d[k].key = key
    ELSE 0

\* if key not in d: d[key] = []; d[key].append(error)
AppendUnderKey(d, key, error) ==
    IF KeyPosition(d, key) = 0
    THEN Append(d, [ key |-> key, errors |-> <<error>> ])
    ELSE [ d EXCEPT ![KeyPosition(d, key)].errors = Append(@, error) ]

\* str.split('_')
RECURSIVE SplitUnderscore(_)
SplitUnderscore(str) ==
    IF \E k \in 1..Len(str) : str[k] = "_"
    THEN LET k == CHOOSE m \in 1..Len(str) :
                      str[m] = "_" /\ \A n \in 1..(m - 1) : str[n] # "_"
         IN  <<SubSeq(str, 1, k - 1)>> \o SplitUnderscore(SubSeq(str, k + 1, Len(str)))
    ELSE <<str>>

\* '_'.join(parts)
RECURSIVE JoinUnderscore(_)
JoinUnderscore(parts) ==
    IF Len(parts) = 0 THEN <<>>
    ELSE IF Len(parts) = 1 THEN parts[1]
    ELSE parts[1] \o <<"_">> \o JoinUnderscore(Tail(parts))

\* ErrorLogger.get_failed_files
get_failed_files(d) ==
    [ k \in 1..Len(d) |->
        LET parts == SplitUnderscore(d[k].key)
        IN  << parts[1],
               IF Len(parts) > 1 THEN JoinUnderscore(Tail(parts)) ELSE NoLanguage,
               Len(d[k].errors) >> ]

InitLogger ==
    /\ CoreIdle
    /\ LoggerIdle
    /\ WorkerIdle
    /\ ApiIdle
    /\ BatchIdle

\* ErrorLogger.log_error
log_error(name, language) ==
    /\ Len(logger_errors) < MaxLogCalls
    /\ logger_errors' = Append(logger_errors, ErrorRecord(name, language))
    /\ logger_failed_files' =
           AppendUnderKey(logger_failed_files, FailedKey(name, language),
                          ErrorRecord(name, language))
    /\ failed_list' = NotCalled
    /\ UNCHANGED <<core_vars, worker_vars, api_vars, batch_vars>>

\* A call of ErrorLogger.get_failed_files.
GetFailedFiles ==
    /\ failed_list' = get_failed_files(logger_failed_files)
    /\ UNCHANGED <<core_vars, worker_vars, api_vars, batch_vars,
                   logger_errors, logger_failed_files>>

NextLogger ==
    \/ \E name \in LoggedNames, language \in LoggedLanguages :
           log_error(name, language)
    \/ GetFailedFiles

SpecLogger == InitLogger /\ [][NextLogger]_vars

----------------------------------------------------------------------------
(* ErrorRecovery (error_handler.py) and translate_file_worker              *)
(* (translator_bridge.py)                                                  *)

\* Largest retry count get_retry_delay is called with directly.
MaxRetryCount == 7

\* The cap of get_retry_delay, in seconds.
MaxDelay == 60

\* translate_file_worker retries while retry_count is below this.
RetryLimit == 3

\* The messages of the exceptions translate_blocks raises.
Msg429 == <<"H", "T", "T", "P", " ", "4", "2", "9">>

MsgTimeout == <<"T", "i", "m", "e", "o", "u", "t">>

MsgBadKey == <<"I", "n", "v", "a", "l", "i", "d", " ", "k", "e", "y">>

ErrorMessages == { Msg429, MsgTimeout, MsgBadKey }

\* The outcome of a call that did not raise.
Ok == <<"ok">>

\* str.lower on the characters of the messages.
ToLower(c) ==
    CASE c = "H" -> "h" [] c = "T" -> "t" [] c = "P" -> "p" [] c = "I" -> "i"
      [] OTHER -> c

LowerCase(str) == [ k \in 1..Len(str) |-> ToLower(str[k]) ]

\* keyword in error_str
Contains(str, keyword) ==
    \E p \in 1..(Len(str) - Len(keyword) + 1) :
        SubSeq(str, p, p + Len(keyword) - 1) = keyword

retryable_keywords ==
    { <<"r", "a", "t", "e", " ", "l", "i", "m", "i", "t">>,
      <<"t", "i", "m", "e", "o", "u", "t">>,
      <<"t", "e", "m", "p", "o", "r", "a", "r", "i", "l", "y">>,
      <<"c", "o", "n", "n", "e", "c", "t", "i", "o", "n">>,
      <<"o", "v", "e", "r", "l", "o", "a", "d", "e", "d">>,
      <<"4", "2", "9">>,
      <<"5", "0", "3">>,
      <<"5", "0", "2">>,
      <<"u", "n", "a", "v", "a", "i", "l", "a", "b", "l", "e">> }

\* Mutant: every error is retried.
should_retry_always(message) == TRUE

\* ErrorRecovery.should_retry_api_error
should_retry_api_error(message) ==
    \E keyword \in retryable_keywords : Contains(LowerCase(message), keyword)

\* Mutant: the delay is not capped.
get_retry_delay_uncapped(n) == 2 ^ n

\* ErrorRecovery.get_retry_delay
get_retry_delay(n) == Min(2 ^ n, MaxDelay)

\* The dict translate_file_worker returns.
WorkerResult(success) == [ returned |-> TRUE, success |-> success ]

InitWorker ==
    /\ CoreIdle
    /\ LoggerIdle
    /\ ApiIdle
    /\ BatchIdle
    /\ retry_count = 0
    /\ worker_pc = "read"
    /\ attempts = <<>>
    /\ waits = <<>>
    /\ worker_result = [ returned |-> FALSE ]
    /\ delay_arg = 0
    /\ delay = 0

\* A direct call of get_retry_delay.
GetRetryDelay(n) ==
    /\ delay_arg' = n
    /\ delay' = get_retry_delay(n)
    /\ UNCHANGED <<core_vars, logger_vars, api_vars, batch_vars,
                   retry_count, worker_pc, attempts, waits, worker_result>>

\* The file cannot be read, is empty or has no blocks: the worker returns.
ReadFails ==
    /\ worker_pc = "read"
    /\ worker_result' = WorkerResult(FALSE)
    /\ worker_pc' = "returned"
    /\ UNCHANGED <<core_vars, logger_vars, api_vars, batch_vars,
                   retry_count, attempts, waits, delay_arg, delay>>

\* The file is read and parsed.
ReadOk ==
    /\ worker_pc = "read"
    /\ worker_pc' = "translate"
    /\ UNCHANGED <<core_vars, logger_vars, api_vars, batch_vars,
                   retry_count, attempts, waits, worker_result, delay_arg,
                   delay>>

\* translate_blocks returns.
TranslateOk ==
    /\ worker_pc = "translate"
    /\ attempts' = Append(attempts, Ok)
    /\ worker_pc' = "save"
    /\ UNCHANGED <<core_vars, logger_vars, api_vars, batch_vars,
                   retry_count, waits, worker_result, delay_arg, delay>>

\* translate_blocks raises and the worker sleeps and calls itself again.
TranslateRetry(message) ==
    /\ worker_pc = "translate"
    /\ should_retry_api_error(message)
    /\ retry_count < RetryLimit
    /\ attempts' = Append(attempts, message)
    /\ waits' = Append(waits, get_retry_delay(retry_count))
    /\ retry_count' = retry_count + 1
    /\ worker_pc' = "read"
    /\ UNCHANGED <<core_vars, logger_vars, api_vars, batch_vars,
                   worker_result, delay_arg, delay>>

\* translate_blocks raises and the worker gives up.
TranslateFails(message) ==
    /\ worker_pc = "translate"
    /\ ~(should_retry_api_error(message) /\ retry_count < RetryLimit)
    /\ attempts' = Append(attempts, message)
    /\ worker_result' = WorkerResult(FALSE)
    /\ worker_pc' = "returned"
    /\ UNCHANGED <<core_vars, logger_vars, api_vars, batch_vars,
                   retry_count, waits, delay_arg, delay>>

\* The translated file is written, or writing it raises.
Save(success) ==
    /\ worker_pc = "save"
    /\ worker_result' = WorkerResult(success)
    /\ worker_pc' = "returned"
    /\ UNCHANGED <<core_vars, logger_vars, api_vars, batch_vars,
                   retry_count, attempts, waits, delay_arg, delay>>

NextWorker ==
    \/ \E n \in 0..MaxRetryCount : GetRetryDelay(n)
    \/ ReadFails
    \/ ReadOk
    \/ TranslateOk
    \/ \E message \in ErrorMessages : TranslateRetry(message)
    \/ \E message \in ErrorMessages : TranslateFails(message)
    \/ \E success \in BOOLEAN : Save(success)

SpecWorker == InitWorker /\ [][NextWorker]_vars

----------------------------------------------------------------------------
(* safe_api_call (translator.py)                                           *)

\* max_retries of safe_api_call.
max_retries == 5

\* The cap of wait_time, in seconds.
MaxWait == 30

\* random.uniform(0, 2), in whole seconds: both ends and the middle.
Jitter == {0, 1, 2}

\* What a call of func can raise.
Raised == { "RateLimitError", "APIError", "APITimeoutError", "ValueError" }

\* Mutant: every exception is caught by the first handler.
RetriedErrorsAll == Raised

\* The exceptions of the first except clause.
RetriedErrors == { "RateLimitError", "APIError", "APITimeoutError" }

InitApiCall ==
    /\ CoreIdle
    /\ LoggerIdle
    /\ WorkerIdle
    /\ BatchIdle
    /\ api_pc = "loop"
    /\ api_attempt = 0
    /\ api_calls = <<>>
    /\ api_waits = <<>>

\* func returns: safe_api_call returns its result.
CallReturns ==
    /\ api_pc = "loop"
    /\ api_attempt < max_retries
    /\ api_calls' = Append(api_calls, "ok")
    /\ api_pc' = "returned"
    /\ UNCHANGED <<core_vars, logger_vars, worker_vars, batch_vars,
                   api_attempt, api_waits>>

\* func raises an API error: sleep and go on with the next attempt.
CallRetried(e, u) ==
    /\ api_pc = "loop"
    /\ api_attempt < max_retries
    /\ e \in RetriedErrors
    /\ api_calls' = Append(api_calls, e)
    /\ api_waits' = Append(api_waits, Min(MaxWait, 2 ^ api_attempt + u))
    /\ api_attempt' = api_attempt + 1
    /\ UNCHANGED <<core_vars, logger_vars, worker_vars, batch_vars, api_pc>>

\* func raises anything else: the exception is raised again.
CallRaises(e) ==
    /\ api_pc = "loop"
    /\ api_attempt < max_retries
    /\ e \notin RetriedErrors
    /\ api_calls' = Append(api_calls, e)
    /\ api_pc' = "raised"
    /\ UNCHANGED <<core_vars, logger_vars, worker_vars, batch_vars,
                   api_attempt, api_waits>>

\* The loop is over: RuntimeError.
GiveUp ==
    /\ api_pc = "loop"
    /\ api_attempt >= max_retries
    /\ api_pc' = "runtime_error"
    /\ UNCHANGED <<core_vars, logger_vars, worker_vars, batch_vars,
                   api_attempt, api_calls, api_waits>>

NextApiCall ==
    \/ CallReturns
    \/ \E e \in Raised, u \in Jitter : CallRetried(e, u)
    \/ \E e \in Raised : CallRaises(e)
    \/ GiveUp

SpecApiCall == InitApiCall /\ [][NextApiCall]_vars

----------------------------------------------------------------------------
(* translate_batch and translate_blocks (translator.py)                    *)

\* Largest number of blocks translate_blocks is called with.
MaxInputBlocks == 11

\* Largest number of lines of a response.
MaxResponseLines == 2

\* batch_size of translate_blocks.
batch_size == 10

\* The line a block of a failed batch gets.
TranslationFailed == <<"[", "T", "r", "a", "n", "s", "l", "a", "t", "i", "o", "n", " ", "f", "a", "i", "l", "e", "d", "]">>

\* The lines of the responses of the model.
RespHi == <<"[", "L", "1", "]", " ", "H", "i">>

RespYo == <<"[", "L", "2", "]", "Y", "o", " ">>

RespTen == <<" ", "[", "L", "1", "0", "]", " ", "x">>

RespZero == <<"[", "L", "0", "]", " ", "z">>

RespWord == <<"[", "L", "x", "]", " ", "q">>

RespOpen == <<"[", "L", "1", " ", "n", "o">>

RespBare == <<"L", "1", "]", " ", "w">>

RespSigned == <<"[", "L", "+", "2", "]", " ", "p">>

ResponseLines ==
    { RespHi, RespYo, RespTen, RespZero, RespWord, RespOpen,
      RespBare, RespSigned, EmptyLine }

\* Whether a text split at "\n" is as str.strip() leaves it: empty, or
\* without whitespace at its start and at its end.
IsStripped(response) ==
    \/ response = <<EmptyLine>>
    \/ /\ response[1] # <<>>
       /\ Strip(<<response[1][1]>>) # <<>>
       /\ response[Len(response)] # <<>>
       /\ Strip(<<response[Len(response)][Len(response[Len(response)])]>>) # <<>>

\* raw = response.choices[0].message.content.strip(), split at "\n": at
\* least one line.
Responses(n) ==
    { response \in UNION { [1..k -> ResponseLines] : k \in 1..n } :
          IsStripped(response) }

\* The argument of translate_blocks: n blocks as srt_utils.parse_srt
\* returns them, with one or two text lines.
InputBlocks(n) ==
    [ k \in 1..n |->
        [ index |-> k, start |-> 2 * k, end |-> 2 * k + 1,
          lines |-> IF k % 2 = 1 THEN << <<"a">>, <<"b">> >> ELSE << <<"c">> >> ] ]

\* " ".join(lines)
RECURSIVE JoinSpace(_)
JoinSpace(ls) ==
    IF Len(ls) = 0 THEN <<>>
    ELSE IF Len(ls) = 1 THEN ls[1]
    ELSE ls[1] \o <<" ">> \o JoinSpace(Tail(ls))

\* str.find("]"): the 0-based position of the first "]", or -1.
FindBracket(line) ==
    IF \E k \in 1..Len(line) : line[k] = "]"
    THEN (CHOOSE k \in 1..Len(line) :
              line[k] = "]" /\ \A m \in 1..(k - 1) : line[m] # "]") - 1
    ELSE -1

\* Whether int(label) returns: whitespace around, an optional sign, digits.
IntParses(label) ==
    LET t == Strip(label)
    IN  /\ t # <<>>
        /\ isdigit(IF t[1] \in {"+", "-"} THEN Tail(t) ELSE t)

\* int(label), when it returns.
IntValue(label) ==
    LET t == Strip(label)
    IN  IF t[1] = "-" THEN 0 - int(Tail(t))
        ELSE IF t[1] = "+" THEN int(Tail(t))
        ELSE int(t)

\* Mutant: the label is used as the 0-based position.
OutIndexUnshifted(label) == IntValue(label)

\* out_index = int(label) - 1
OutIndex(label) == IntValue(label) - 1

\* One iteration of the loop over the response lines.
ApplyLine(out, raw_line) ==
    LET line == Strip(raw_line)
        close_bracket == FindBracket(line)
        label == SubSeq(line, 3, close_bracket)
        text_after == Strip(SubSeq(line, close_bracket + 2, Len(line)))
    IN  IF /\ line # <<>>
           /\ Len(line) >= 2
           /\ SubSeq(line, 1, 2) = <<"[", "L">>
           /\ close_bracket # -1
           /\ IntParses(label)
           /\ 0 <= OutIndex(label)
           /\ OutIndex(label) < Len(out)
        THEN [ out EXCEPT ![OutIndex(label) + 1] = text_after ]
        ELSE out

\* The loop over the response lines, from line k on.
RECURSIVE ApplyLines(_, _, _)
ApplyLines(out, response, k) ==
    IF k > Len(response) THEN out
    ELSE ApplyLines(ApplyLine(out, response[k]), response, k + 1)

\* translate_batch, from the response on: [""] * len(lines), then the loop.
translate_batch(input, response) ==
    ApplyLines([ k \in 1..Len(input) |-> <<>> ], response, 1)

\* Mutant: a failed batch has no lines.
FailedBatchEmpty(n) == <<>>

\* ["[Translation failed]"] * len(batch)
FailedBatch(n) == [ k \in 1..n |-> TranslationFailed ]

\* batch = blocks[i:i+batch_size]
Batch == SubSeq(tb_blocks, tb_i + 1, Min(tb_i + batch_size, Len(tb_blocks)))

\* The blocks appended for a batch.
Stitched(batch, batch_translated_lines) ==
    [ j \in 1..Len(batch) |->
        [ index |-> batch[j].index, start |-> batch[j].start,
          end |-> batch[j].end,
          lines |-> << IF j <= Len(batch_translated_lines)
                       THEN batch_translated_lines[j] ELSE <<>> >> ] ]

InitBlocks ==
    /\ CoreIdle
    /\ LoggerIdle
    /\ WorkerIdle
    /\ ApiIdle
    /\ tb_blocks \in { InputBlocks(n) : n \in 0..MaxInputBlocks }
    /\ tb_pc = "loop"
    /\ tb_i = 0
    /\ translated_blocks = <<>>
    /\ batch_lines = <<>>
    /\ raw = <<>>
    /\ batch_out = <<>>

\* A batch for which translate_batch returns.
BatchTranslated(response) ==
    LET input == [ j \in 1..Len(Batch) |-> JoinSpace(Batch[j].lines) ]
        out == translate_batch(input, response)
    IN  /\ tb_pc = "loop"
        /\ tb_i < Len(tb_blocks)
        /\ batch_lines' = input
        /\ raw' = response
        /\ batch_out' = out
        /\ translated_blocks' = translated_blocks \o Stitched(Batch, out)
        /\ tb_i' = tb_i + batch_size
        /\ UNCHANGED <<core_vars, logger_vars, worker_vars, api_vars,
                       tb_blocks, tb_pc>>

\* A batch for which translate_batch raises.
BatchFails ==
    LET input == [ j \in 1..Len(Batch) |-> JoinSpace(Batch[j].lines) ]
        out == FailedBatch(Len(Batch))
    IN  /\ tb_pc = "loop"
        /\ tb_i < Len(tb_blocks)
        /\ batch_lines' = input
        /\ raw' = <<>>
        /\ batch_out' = out
        /\ translated_blocks' = translated_blocks \o Stitched(Batch, out)
        /\ tb_i' = tb_i + batch_size
        /\ UNCHANGED <<core_vars, logger_vars, worker_vars, api_vars,
                       tb_blocks, tb_pc>>

\* translate_blocks returns translated_blocks.
BlocksReturned ==
    /\ tb_pc = "loop"
    /\ tb_i >= Len(tb_blocks)
    /\ tb_pc' = "returned"
    /\ UNCHANGED <<core_vars, logger_vars, worker_vars, api_vars,
                   tb_blocks, tb_i, translated_blocks, batch_lines, raw,
                   batch_out>>

NextBlocks ==
    \/ \E response \in Responses(MaxResponseLines) : BatchTranslated(response)
    \/ BatchFails
    \/ BlocksReturned

SpecBlocks == InitBlocks /\ [][NextBlocks]_vars

----------------------------------------------------------------------------
(* Vocabulary of the properties, defined without the model's operators *)

\* A line that is empty or holds whitespace only.
IsBlank(line) == \A k \in 1..Len(line) : line[k] \in Whitespace

\* A silent block: no text lines, or blank lines only.
Silent(b) == \A k \in 1..Len(b.text_lines) : IsBlank(b.text_lines[k])

SameTimes(a, b) == a.start_time = b.start_time /\ a.end_time = b.end_time

Done == pc = "done"

\* The candidate is non-empty and the block counts match.
CountsMatch == Len(target_blocks) # 0 /\ Len(en_blocks) = Len(target_blocks)

Positions == 1..Len(en_blocks)

\* Positions of the returned issues whose block_index is p.
IssuesAt(p) == { k \in 1..Len(result.issues) : result.issues[k].block_index = p }

\* Non-silent reference blocks.
NonSilentRefs == { p \in Positions : ~Silent(en_blocks[p]) }

\* Non-silent reference blocks whose candidate has the same times and text.
ValidRefs ==
    { p \in NonSilentRefs :
        SameTimes(en_blocks[p], target_blocks[p]) /\ ~Silent(target_blocks[p]) }

IsRate(r, n) == r.den > 0 /\ r.num = n * r.den

----------------------------------------------------------------------------
(* Properties *)

\* C1: in every returned result, passed is true iff the issues list is empty.
C1_PassedIffNoIssues ==
    Done => (result.passed <=> Len(result.issues) = 0)

C1_Witness ==
    /\ Done
    /\ CountsMatch
    /\ NonSilentRefs # {}
    /\ result.passed

\* C2: an empty candidate gives passed = false, match_rate 0.0,
\* target_block_count 0, en_block_count = len(reference) and exactly one
\* issue: empty_file, severity error, no block_index.
C2_EmptyCandidate ==
    (Done /\ Len(target_blocks) = 0) =>
        /\ result.passed = FALSE
        /\ IsRate(result.match_rate, 0)
        /\ result.target_block_count = 0
        /\ result.en_block_count = Len(en_blocks)
        /\ Len(result.issues) = 1
        /\ result.issues[1].issue_type = "empty_file"
        /\ result.issues[1].severity = "error"
        /\ result.issues[1].block_index = None

C2_Witness ==
    /\ Done
    /\ Len(target_blocks) = 0
    /\ Len(en_blocks) = 2
    /\ NonSilentRefs # {}

\* C3: a non-empty candidate of another length than the reference gives
\* exactly one issue, block_count_mismatch without block_index, with both
\* counts and their absolute difference, match_rate 0.0 and passed = false;
\* every field of the result is determined by the two lengths alone.
C3_CountMismatch ==
    (Done /\ Len(target_blocks) # 0 /\ Len(en_blocks) # Len(target_blocks)) =>
        LET n == Len(en_blocks)
            m == Len(target_blocks)
            d == IF n > m THEN n - m ELSE m - n
        IN  /\ result.passed = FALSE
            /\ IsRate(result.match_rate, 0)
            /\ result.en_block_count = n
            /\ result.target_block_count = m
            /\ Len(result.issues) = 1
            /\ result.issues[1].issue_type = "block_count_mismatch"
            /\ result.issues[1].severity = "error"
            /\ result.issues[1].block_index = None
            /\ result.issues[1].message = <<"Block count mismatch: ", n, " vs ", m>>
            /\ result.issues[1].details =
                   [ en_count |-> n, target_count |-> m, difference |-> d ]

C3_Witness ==
    /\ Done
    /\ Len(en_blocks) = 1
    /\ Len(target_blocks) = 2
    /\ ~Silent(en_blocks[1])
    /\ ~SameTimes(en_blocks[1], target_blocks[1])
    /\ Silent(target_blocks[2])

\* C4: with matching counts, a non-silent reference block whose candidate
\* differs in start_time or end_time gets exactly one issue, a
\* timestamp_mismatch, and no missing_dialogue, also when the candidate
\* block is silent.
C4_TimestampMismatch ==
    (Done /\ CountsMatch) =>
        \A p \in Positions :
            (~Silent(en_blocks[p]) /\ ~SameTimes(en_blocks[p], target_blocks[p])) =>
                /\ Cardinality(IssuesAt(p)) = 1
                /\ \A k \in IssuesAt(p) :
                       result.issues[k].issue_type = "timestamp_mismatch"

C4_Witness ==
    /\ Done
    /\ CountsMatch
    /\ \E p \in Positions :
           /\ ~Silent(en_blocks[p])
           /\ en_blocks[p].start_time = target_blocks[p].start_time
           /\ en_blocks[p].end_time # target_blocks[p].end_time
           /\ Silent(target_blocks[p])
           /\ Cardinality(IssuesAt(p)) = 1

\* C5: with matching counts, a non-silent reference block whose candidate
\* has the same times and is silent gets exactly one issue, a
\* missing_dialogue, and is one of the errors that match_rate subtracts
\* from the checked blocks.
C5_MissingDialogue ==
    (Done /\ CountsMatch) =>
        \A p \in Positions :
            (/\ ~Silent(en_blocks[p])
             /\ SameTimes(en_blocks[p], target_blocks[p])
             /\ Silent(target_blocks[p])) =>
                /\ Cardinality(IssuesAt(p)) = 1
                /\ \A k \in IssuesAt(p) :
                       result.issues[k].issue_type = "missing_dialogue"
                /\ result.match_rate.den > 0
                /\ RatEq(result.match_rate,
                         Rat(100 * (Cardinality(NonSilentRefs) - Len(result.issues)),
                             Cardinality(NonSilentRefs)))

C5_Witness ==
    /\ Done
    /\ CountsMatch
    /\ \E p, q \in Positions :
           /\ ~Silent(en_blocks[p]) /\ ~Silent(en_blocks[q])
           /\ SameTimes(en_blocks[p], target_blocks[p])
           /\ SameTimes(en_blocks[q], target_blocks[q])
           /\ target_blocks[p].text_lines = <<>>
           /\ target_blocks[q].text_lines = <<EmptyLine, BlankLine>>
           /\ Cardinality(IssuesAt(p)) = 1
           /\ Cardinality(IssuesAt(q)) = 1

\* C6: with matching counts, checked_blocks counts exactly the non-silent
\* reference blocks visited so far, and no issue carries the block_index of
\* a silent reference block.
C6_SilentReferenceSkipped ==
    CountsMatch =>
        /\ checked_blocks = Cardinality({ p \in 1..i : ~Silent(en_blocks[p]) })
        /\ \A k \in 1..Len(issues) :
               /\ issues[k].block_index \in Positions
               /\ ~Silent(en_blocks[issues[k].block_index])

C6_Witness ==
    /\ Done
    /\ CountsMatch
    /\ checked_blocks = 1
    /\ \E p \in Positions :
           /\ Silent(en_blocks[p])
           /\ ~SameTimes(en_blocks[p], target_blocks[p])
           /\ Silent(target_blocks[p])
           /\ IssuesAt(p) = {}

\* C7: a sequence of N >= 1 blocks, at least one non-silent, validated
\* against itself gives passed = true, no issues and match_rate 100.0.
C7_PerfectMatch ==
    (Done /\ en_blocks = target_blocks /\ Len(en_blocks) >= 1 /\ NonSilentRefs # {}) =>
        /\ result.passed = TRUE
        /\ result.issues = <<>>
        /\ IsRate(result.match_rate, 100)

C7_Witness ==
    /\ Done
    /\ en_blocks = target_blocks
    /\ Len(en_blocks) = 2
    /\ Cardinality(NonSilentRefs) = 1
    /\ result.passed

\* C8 as stated: an all-silent reference with any candidate of the same
\* length gives match_rate 100.0 and passed = true.
C8_AllSilentAnyLength ==
    (Done /\ Len(en_blocks) = Len(target_blocks) /\ NonSilentRefs = {}) =>
        /\ IsRate(result.match_rate, 100)
        /\ result.passed = TRUE

\* C8 amended: a non-empty all-silent reference with any candidate of the
\* same length gives match_rate 100.0 and passed = true, with zero checked
\* blocks and zero errors.
C8_AllSilentNonEmpty ==
    (/\ Done
     /\ Len(en_blocks) = Len(target_blocks)
     /\ Len(en_blocks) >= 1
     /\ NonSilentRefs = {}) =>
        /\ IsRate(result.match_rate, 100)
        /\ result.passed = TRUE
        /\ checked_blocks = 0
        /\ error_count = 0

C8_Witness ==
    /\ Done
    /\ Len(en_blocks) = 2
    /\ Len(target_blocks) = 2
    /\ NonSilentRefs = {}
    /\ \E p \in Positions :
           ~SameTimes(en_blocks[p], target_blocks[p]) /\ ~Silent(target_blocks[p])
    /\ result.passed

\* C9: with matching counts, match_rate = 100 * V / C, C the number of
\* non-silent reference blocks and V the number of those whose candidate
\* has equal times and is non-silent; 100.0 when C = 0.
C9_MatchRateFormula ==
    (Done /\ CountsMatch) =>
        /\ result.match_rate.den > 0
        /\ IF Cardinality(NonSilentRefs) = 0
           THEN IsRate(result.match_rate, 100)
           ELSE RatEq(result.match_rate,
                      Rat(100 * Cardinality(ValidRefs), Cardinality(NonSilentRefs)))

C9_Witness ==
    /\ Done
    /\ CountsMatch
    /\ Cardinality(NonSilentRefs) = 2
    /\ Cardinality(ValidRefs) = 1
    /\ IsRate(result.match_rate, 50)

\* C10: the error counter never exceeds the number of checked blocks, and
\* the returned match_rate lies in [0, 100].
C10_MatchRateRange ==
    /\ error_count <= checked_blocks
    /\ Done =>
           /\ result.match_rate.den > 0
           /\ RatLeq(Rat(0, 1), result.match_rate)
           /\ RatLeq(result.match_rate, Rat(100, 1))

C10_Witness ==
    /\ Done
    /\ CountsMatch
    /\ checked_blocks = 2
    /\ error_count = 2
    /\ IsRate(result.match_rate, 0)
    /\ \E p \in Positions :
           ~SameTimes(en_blocks[p], target_blocks[p]) /\ Silent(target_blocks[p])

\* C11: a returned match_rate of 100.0 goes with passed = true and the
\* converse, and a result with match_rate < 100 carries at least one issue.
C11_FullRateIffPassed ==
    Done =>
        /\ result.match_rate.den > 0
        /\ IsRate(result.match_rate, 100) <=> result.passed
        /\ ~IsRate(result.match_rate, 100) => Len(result.issues) >= 1

C11_Witness ==
    /\ Done
    /\ CountsMatch
    /\ ~result.passed
    /\ result.match_rate.num > 0
    /\ ~IsRate(result.match_rate, 100)

\* C12: the issues are in discovery order: no file-level issue follows a
\* per-block issue, the block_index values of the per-block issues are
\* strictly increasing and each lies in 1..N; a file-level issue stands
\* alone and only outside the per-block path.
C12_IssuesInDiscoveryOrder ==
    /\ \A j, k \in 1..Len(issues) :
           j < k =>
               /\ issues[j].block_index # None
               /\ issues[k].block_index # None
               /\ issues[j].block_index < issues[k].block_index
    /\ \A k \in 1..Len(issues) :
           IF CountsMatch
           THEN issues[k].block_index \in 1..Len(en_blocks)
           ELSE issues[k].block_index = None
    /\ Done => result.issues = issues

C12_Witness ==
    /\ Done
    /\ Len(result.issues) = 2
    /\ result.issues[1].issue_type = "missing_dialogue"
    /\ result.issues[2].issue_type = "timestamp_mismatch"

\* C13: validate_subtitle_pair never raises and always returns: every list
\* access of the loop is in range, the loop index never passes the end,
\* every state before the return has a next step, and the value returned
\* is a ValidationResult.
C13_NeverRaises ==
    /\ i <= Len(en_blocks)
    /\ (pc = "loop" /\ i < Len(en_blocks)) => (i + 1) \in DOMAIN target_blocks
    /\ ~Done => ENABLED NextValidate
    /\ Done =>
           /\ DOMAIN result =
                  { "filename", "target_language", "passed", "issues",
                    "en_block_count", "target_block_count", "match_rate" }
           /\ result.passed \in BOOLEAN
           /\ result.issues = issues

C13_Witness ==
    /\ Done
    /\ Len(en_blocks) = 2
    /\ Len(target_blocks) = 2
    /\ checked_blocks = 1
    /\ Len(result.issues) = 1

\* Where a block's timestamp line stands in lines (1-based).
TimestampLineOf(b) ==
    IF b.index = NoIndex THEN b.line_number ELSE b.line_number + 1

Returned == parse_pc = "returned"

\* C14: parse_srt_file terminates on every input: the cursor stays within
\* the text, the outer loop runs at most once per line, an iteration that
\* does not stop moves the cursor strictly forward, and the blocks
\* returned stand on lines of the text.
C14_ParserTotality ==
    /\ [](cursor \in 0..Len(lines))
    /\ [](iterations <= Len(lines))
    /\ [][(parse_pc = "scan" /\ parse_pc' = "scan") => cursor' > cursor]_vars
    /\ [][parse_pc = "returned" => parse_pc' = "returned"]_vars
    /\ [](Returned => \A k \in 1..Len(blocks) :
              TimestampLineOf(blocks[k]) \in 1..Len(lines))

C14_Witness ==
    /\ Returned
    /\ Len(lines) = 3
    /\ lines[1] = NumLine1
    /\ lines[2] = TextLine
    /\ lines[3] = NumLine2
    /\ blocks = <<>>

----------------------------------------------------------------------------
(* Vocabulary of the parser properties, by enumeration of the lines *)

IsTimestampLine(l) == l \in {TsLineA, TsLineB}

\* The start and end time written on a timestamp line.
TimesOf(l) == IF l = TsLineA THEN <<Clock1, Clock2>> ELSE <<Clock3, Clock4>>

IsNumericLine(l) == l \in {NumLine1, NumLine2} \cup { IndexLine(k) : k \in 1..9 }

\* The number written on a numeric line.
NumberOf(l) ==
    IF l = NumLine2 THEN 20 ELSE CHOOSE k \in 1..9 : l = IndexLine(k)

\* A line without its trailing whitespace.
RightTrimmed(l) == IF l = PaddedTextLine THEN <<" ", "O", "k">> ELSE l

\* The line at position r ends a block's text: it is blank, a timestamp
\* line, or numeric and followed by a timestamp line.
IsBoundary(r) ==
    \/ IsBlank(lines[r])
    \/ IsTimestampLine(lines[r])
    \/ IsNumericLine(lines[r]) /\ r < Len(lines) /\ IsTimestampLine(lines[r + 1])

\* The blocks that stand on the timestamp line at position q.
BlocksAt(q) == { j \in 1..Len(blocks) : TimestampLineOf(blocks[j]) = q }

\* The line after the text of block j.
AfterText(j) == TimestampLineOf(blocks[j]) + Len(blocks[j].text_lines) + 1

\* Captions of the generated file with a timestamp line.
GoodSegments == { k \in 1..Len(segments) : IsTimestampLine(segments[k].header) }

\* The j-th of them.
NthGood(j) ==
    CHOOSE k \in GoodSegments : Cardinality({ m \in GoodSegments : m < k }) = j - 1

\* Block j is caption k of the generated file.
IsCaption(j, k) ==
    /\ blocks[j].index = k
    /\ <<blocks[j].start_time, blocks[j].end_time>> = TimesOf(segments[k].header)
    /\ blocks[j].text_lines =
           [ m \in 1..Len(segments[k].text) |-> RightTrimmed(segments[k].text[m]) ]

\* C15: a timestamp line that does not follow a numeric line still gets
\* its block, with index none, its times and the text lines after it; the
\* text of a timestamp line and "Hey" gives one block with text ["Hey"].
C15_IndexOptional ==
    Returned =>
        /\ \A q \in 1..Len(lines) :
               (IsTimestampLine(lines[q]) /\ (q = 1 \/ ~IsNumericLine(lines[q - 1]))) =>
                   /\ Cardinality(BlocksAt(q)) = 1
                   /\ \A j \in BlocksAt(q) :
                          /\ blocks[j].index = NoIndex
                          /\ blocks[j].line_number = q
                          /\ <<blocks[j].start_time, blocks[j].end_time>> = TimesOf(lines[q])
                          /\ \A m \in 1..Len(blocks[j].text_lines) :
                                 blocks[j].text_lines[m] = RightTrimmed(lines[q + m])
        /\ lines = <<TsLineA, TextLine, EmptyLine>> =>
               blocks = << [ index |-> NoIndex, start_time |-> Clock1,
                             end_time |-> Clock2, text_lines |-> <<TextLine>>,
                             line_number |-> 1 ] >>

C15_Witness ==
    /\ Returned
    /\ lines = <<TsLineA, TextLine, EmptyLine>>
    /\ Len(blocks) = 1
    /\ blocks[1].index = NoIndex

\* C16: a timestamp line followed by a blank line (or by nothing) gets a
\* block with zero text lines, and in a generated file whose captions all
\* have a timestamp line every caption, also one after a silent caption,
\* is returned with its index, times and text.
C16_SilentBlockEmitted ==
    Returned =>
        /\ \A q \in 1..Len(lines) :
               (/\ IsTimestampLine(lines[q])
                /\ (q = Len(lines) \/ IsBlank(lines[q + 1]))) =>
                   /\ Cardinality(BlocksAt(q)) = 1
                   /\ \A j \in BlocksAt(q) :
                          blocks[j].text_lines = <<>> /\ Silent(blocks[j])
        /\ (segments # <<>> /\ GoodSegments = 1..Len(segments)) =>
               /\ Len(blocks) = Len(segments)
               /\ \A k \in 1..Len(segments) :
                      /\ IsCaption(k, k)
                      /\ Silent(blocks[k]) <=> segments[k].text = <<>>

C16_Witness ==
    /\ Returned
    /\ Len(segments) = 2
    /\ segments[1] = [ header |-> TsLineA, text |-> <<>> ]
    /\ segments[2] = [ header |-> TsLineB, text |-> <<PaddedTextLine, TextLine>> ]
    /\ Len(blocks) = 2
    /\ Silent(blocks[1])
    /\ ~Silent(blocks[2])

C18_TextStopsAtBoundary ==
    Returned =>
        \A j \in 1..Len(blocks) :
            LET q == TimestampLineOf(blocks[j])
                n == Len(blocks[j].text_lines)
                r == AfterText(j)
            IN  /\ q + n <= Len(lines)
                /\ \A m \in 1..n : ~IsBoundary(q + m)
                /\ r <= Len(lines) => IsBoundary(r)
                /\ (r <= Len(lines) /\ IsTimestampLine(lines[r])) =>
                       /\ j < Len(blocks)
                       /\ TimestampLineOf(blocks[j + 1]) = r
                       /\ blocks[j + 1].index = NoIndex

C18_Witness ==
    /\ Returned
    /\ lines = <<TsLineA, TextLine, TsLineB, PaddedTextLine>>
    /\ Len(blocks) = 2
    /\ blocks[1].text_lines = <<TextLine>>
    /\ blocks[2].text_lines = <<<<" ", "O", "k">>>>

\* C19: in a generated file in which exactly one caption has another line
\* in place of its timestamp line, the blocks returned are the other
\* captions, in file order, each with its own index, times and text.
C19_MalformedSkipped ==
    (/\ Returned
     /\ segments # <<>>
     /\ Cardinality(GoodSegments) = Len(segments) - 1) =>
        /\ Len(blocks) = Cardinality(GoodSegments)
        /\ \A j \in 1..Len(blocks) : IsCaption(j, NthGood(j))

C19_Witness ==
    /\ Returned
    /\ Len(segments) = 3
    /\ segments[2] = [ header |-> TextLine, text |-> <<PaddedTextLine, TextLine>> ]
    /\ GoodSegments = {1, 3}
    /\ Len(blocks) = 2
    /\ blocks[2].index = 3

\* The key under which a failed task is recorded: the name of its file,
\* and for a language of a file the name, "_" and the language's name.
NameOf(path) ==
    IF path \in {Walk[1], Walk[2]} THEN <<"a">> \o SrtSuffix
                                   ELSE <<"b">> \o SrtSuffix

LanguageNameOf(lang) == IF lang = <<"f", "r">> THEN <<"F", "r">> ELSE <<"H", "i">>

KeyOfTask(t) ==
    IF t.lang = 0 THEN NameOf(srt_files[t.file])
    ELSE NameOf(srt_files[t.file]) \o <<"_">> \o LanguageNameOf(languages[t.lang])

TranslateReturned == main_pc = "returned"

C24_IssuesEqualErrorCount ==
    CountsMatch =>
        /\ Len(issues) = error_count
        /\ error_count <= checked_blocks
        /\ \A k \in 1..Len(issues) : issues[k].severity = "error"
        /\ \A p \in Positions :
               Cardinality({ k \in 1..Len(issues) : issues[k].block_index = p }) <= 1
        /\ Done =>
               /\ result.issues = issues
               /\ (error_count = 0) <=> (result.issues = <<>>)
               /\ result.passed <=> (error_count = 0)

C24_Witness ==
    /\ Done
    /\ CountsMatch
    /\ Len(en_blocks) = 2
    /\ checked_blocks = 2
    /\ error_count = 1
    /\ Len(result.issues) = 1
    /\ result.issues[1].issue_type = "missing_dialogue"

\* The positions of the timestamp lines of the text.
TimestampPositions == { q \in 1..Len(lines) : IsTimestampLine(lines[q]) }

\* C25: the parser returns one block per timestamp line of the text, in
\* the order of the lines, each with the start and end time of its line.
C25_OneBlockPerTimestampLine ==
    Returned =>
        /\ Len(blocks) = Cardinality(TimestampPositions)
        /\ \A k \in 1..Len(blocks) :
               LET q == TimestampLineOf(blocks[k])
               IN  /\ q \in TimestampPositions
                   /\ Cardinality({ r \in TimestampPositions : r < q }) = k - 1
                   /\ <<blocks[k].start_time, blocks[k].end_time>> = TimesOf(lines[q])
        /\ \A k \in 1..Len(blocks) :
               \A m \in 1..Len(blocks[k].text_lines) :
                   ~IsTimestampLine(blocks[k].text_lines[m])

C25_Witness ==
    /\ Returned
    /\ lines = <<NumLine1, NumLine1, TsLineB, TsLineA>>
    /\ Len(blocks) = 2
    /\ blocks[1].start_time = Clock3
    /\ blocks[2].start_time = Clock1

\* total_tasks of translate_files.
TotalTasks == Len(srt_files) * Len(languages)

\* The progress values reported so far never decrease and stay within
\* total_tasks.
ProgressMonotoneBounded ==
    /\ \A j, k \in 1..Len(progress) : j < k => progress[j] <= progress[k]
    /\ \A k \in 1..Len(progress) : progress[k] <= TotalTasks

\* C30: the reported progress never decreases and never exceeds the number
\* of files times the number of languages, and when translate_files
\* returns with completed true the last value reported is that number.
C30_ProgressReachesTotal ==
    /\ ProgressMonotoneBounded
    /\ (TranslateReturned /\ bridge_result.completed) =>
           /\ progress # <<>>
           /\ progress[Len(progress)] = TotalTasks

\* The (filename, language) pairs passed to log_error so far.
LoggedPairs ==
    { <<logger_errors[k].filename, logger_errors[k].language>> :
          k \in 1..Len(logger_errors) }

\* The number of log_error calls made with the pair.
TimesLogged(pair) ==
    Cardinality({ k \in 1..Len(logger_errors) :
                    <<logger_errors[k].filename, logger_errors[k].language>> = pair })

\* C21: get_failed_files returns one tuple per distinct (filename,
\* language) passed to log_error, with exactly these two values and the
\* number of errors logged for them, and is non-empty after a log_error.
C21_FailedFilesPerPair ==
    failed_list # NotCalled =>
        /\ Len(failed_list) = Cardinality(LoggedPairs)
        /\ \A pair \in LoggedPairs :
               \E k \in 1..Len(failed_list) :
                   failed_list[k] = <<pair[1], pair[2], TimesLogged(pair)>>
        /\ logger_errors # <<>> => failed_list # <<>>

\* min(2^n, 60), written out.
ExpectedDelay(n) ==
    CASE n = 0 -> 1 [] n = 1 -> 2 [] n = 2 -> 4 [] n = 3 -> 8
      [] n = 4 -> 16 [] n = 5 -> 32 [] OTHER -> 60

\* C22: get_retry_delay(n) is min(2^n, 60): 1, 2, 4, 8 for n = 0..3, never
\* more than 60, and never less than for a smaller n.
C22_RetryDelay ==
    delay # 0 =>
        /\ delay = ExpectedDelay(delay_arg)
        /\ delay <= 60
        /\ \A m \in 0..delay_arg : get_retry_delay(m) <= delay
        /\ \A m \in 0..3 : get_retry_delay(m) = 2 ^ m

C22_Witness ==
    /\ delay_arg = 6
    /\ delay = 60

\* The messages that name a temporary failure.
RetryableMessages == { Msg429, MsgTimeout }

WorkerReturned == worker_pc = "returned"

\* C29: translate_file_worker returns a dict and does not raise; it calls
\* translate_blocks at most 4 times, again only after a failure with a
\* retryable error and retry_count below 3; before the k-th retry it sleeps
\* get_retry_delay(k - 1); it returns success false when the last call
\* failed.
C29_WorkerRetries ==
    /\ Len(attempts) <= 4
    /\ retry_count <= 3
    /\ Len(waits) = retry_count
    /\ \A k \in 1..Len(waits) : waits[k] = ExpectedDelay(k - 1)
    /\ \A k \in 1..Len(attempts) :
           k < Len(attempts) => attempts[k] \in RetryableMessages
    /\ Len(attempts) \in {retry_count, retry_count + 1}
    /\ ~WorkerReturned => ENABLED NextWorker
    /\ WorkerReturned =>
           /\ worker_result.returned
           /\ worker_result.success \in BOOLEAN
           /\ worker_result.success =>
                  /\ attempts # <<>>
                  /\ attempts[Len(attempts)] = Ok
           /\ (attempts # <<>> /\ attempts[Len(attempts)] # Ok) =>
                  ~worker_result.success

C29_Witness ==
    /\ WorkerReturned
    /\ attempts = <<Msg429, MsgTimeout, Msg429, MsgTimeout>>
    /\ waits = <<1, 2, 4>>
    /\ ~worker_result.success

\* The API errors of the openai package that lead to another attempt.
ApiErrors == { "RateLimitError", "APIError", "APITimeoutError" }

\* C28: safe_api_call calls func at most 5 times; a call is followed by
\* another one only if it raised an API error, and then after a wait of at
\* most 30 s; the first result is returned, any other exception is raised
\* at once, and RuntimeError is raised after 5 API errors.
C28_SafeApiCall ==
    /\ Len(api_calls) <= 5
    /\ \A k \in 1..Len(api_calls) :
           k < Len(api_calls) => api_calls[k] \in ApiErrors
    /\ Len(api_waits) = Cardinality({ k \in 1..Len(api_calls) : api_calls[k] \in ApiErrors })
    /\ \A k \in 1..Len(api_waits) : api_waits[k] >= 1 /\ api_waits[k] <= 30
    /\ api_pc = "loop" =>
           /\ \A k \in 1..Len(api_calls) : api_calls[k] \in ApiErrors
           /\ ENABLED NextApiCall
    /\ api_pc = "returned" => api_calls[Len(api_calls)] = "ok"
    /\ api_pc = "raised" => api_calls[Len(api_calls)] \notin ApiErrors \cup {"ok"}
    /\ api_pc = "runtime_error" =>
           /\ Len(api_calls) = 5
           /\ \A k \in 1..5 : api_calls[k] \in ApiErrors

C28_Witness ==
    /\ api_pc = "runtime_error"
    /\ api_calls = <<"RateLimitError", "APIError", "APITimeoutError",
                     "RateLimitError", "APIError">>
    /\ api_waits = <<1, 4, 4, 10, 18>>

\* The number a response line is labelled with, 0 for a line without a
\* label or with a label that is not a number.
LabelOf(line) ==
    CASE line = RespHi -> 1
      [] line \in {RespYo, RespSigned} -> 2
      [] line = RespTen -> 10
      [] OTHER -> 0

\* The text after the label of a labelled response line.
TextOf(line) ==
    CASE line = RespHi -> <<"H", "i">>
      [] line = RespYo -> <<"Y", "o">>
      [] line = RespSigned -> <<"p">>
      [] line = RespTen -> <<"x">>

\* The response lines labelled with n.
LinesLabelled(n) == { k \in 1..Len(raw) : LabelOf(raw[k]) = n }

\* C23: what translate_batch returns is as long as its input; entry n is
\* the text of the last response line labelled [Ln], and empty if there is
\* none; other response lines change nothing.
C23_BatchKeepsLength ==
    raw # <<>> =>
        /\ Len(batch_out) = Len(batch_lines)
        /\ \A n \in 1..Len(batch_out) :
               IF LinesLabelled(n) = {}
               THEN batch_out[n] = <<>>
               ELSE \E k \in LinesLabelled(n) :
                        /\ \A m \in LinesLabelled(n) : m <= k
                        /\ batch_out[n] = TextOf(raw[k])

C23_Witness ==
    /\ raw = <<RespYo, RespSigned>>
    /\ Len(batch_lines) = 10
    /\ batch_out[1] = <<>>
    /\ batch_out[2] = <<"p">>
    /\ batch_out[10] = <<>>

\* C26: for every text, srt_utils.parse_srt returns as many blocks as
\* parse_srt_file, and block k of the one has the start and end time of
\* block k of the other.
C26_ParsersAgree ==
    Returned =>
        LET other == parse_srt(Content(lines))
        IN  /\ Len(other) = Len(blocks)
            /\ \A k \in 1..Len(blocks) :
                   /\ other[k].start = blocks[k].start_time
                   /\ other[k].end = blocks[k].end_time

\* The positions of the blocks of the batch handled last.
LastBatch ==
    { k \in 1..Len(tb_blocks) : tb_i - batch_size < k /\ k <= tb_i }

\* C27: translate_blocks returns as many blocks as it was given, block k
\* with the index, start and end of input block k and one text line; the
\* blocks of a batch whose translation raised get "[Translation failed]",
\* and the blocks of the batches before it stay as they were.
C27_BlocksPreserved ==
    /\ [](/\ Len(translated_blocks) <= Len(tb_blocks)
          /\ \A k \in 1..Len(translated_blocks) :
                 /\ translated_blocks[k].index = tb_blocks[k].index
                 /\ translated_blocks[k].start = tb_blocks[k].start
                 /\ translated_blocks[k].end = tb_blocks[k].end
                 /\ Len(translated_blocks[k].lines) = 1)
    /\ [](tb_pc = "returned" => Len(translated_blocks) = Len(tb_blocks))
    /\ []((tb_i > 0 /\ raw = <<>>) =>
              /\ Cardinality(LastBatch) <= batch_size
              /\ \A k \in LastBatch :
                     translated_blocks[k].lines = <<TranslationFailed>>)
    /\ [][SubSeq(translated_blocks', 1, Len(translated_blocks)) = translated_blocks]_vars

C27_Witness ==
    /\ tb_pc = "returned"
    /\ Len(tb_blocks) = 11
    /\ translated_blocks[1].lines = <<TranslationFailed>>
    /\ translated_blocks[10].lines = <<TranslationFailed>>
    /\ translated_blocks[11].lines = << <<"H", "i">> >>

=============================================================================
